---------------------------- MODULE Spec2Model ----------------------------
(***************************************************************************)
(* Seating Allocation Engine of student_exam_seating_project:              *)
(*   conflict_graph.py   graph construction and DSatur colouring           *)
(*   room_assignment.py  first-fit-decreasing and backtracking allocation  *)
(*   seat_layout.py      seat placement inside one room                    *)
(* Each stage is a state machine of its own (SpecColor, SpecRooms,         *)
(* SpecSeats); the variables of the other stages stay idle.                *)
(***************************************************************************)
EXTENDS Integers, Sequences, FiniteSets, TLC

VARIABLES
    \* ---- conflict_graph.get_colored_groups ----
    df,                         \* the roster, a sequence of rows
    friend_pairs,               \* set of <<id, id>> tuples
    enable_friend_separation,
    enable_section_separation,
    graph,                      \* [nodes, edges, weight]
    colors,                     \* node -> colour (dict of dsatur_coloring)
    color_order,                \* insertion order of the dict colors
    color_groups,               \* colour -> list of ids, in dict order
    cpc,                        \* position in get_colored_groups
    \* ---- room_assignment.assign_rooms_to_groups ----
    groups,                     \* colour groups: sequence of lists of ids
    student_metadata,           \* id -> metadata dict
    rooms_config,               \* list of room configuration dicts
    sorted_groups,              \* groups by descending size
    group_idx,                  \* FFD: number of groups already placed
    room_status,                \* room_id -> tracked state of the room
    assignments,                \* FFD: room_id -> list of ids
    room_assignments,           \* backtracking: room_id -> list of ids
    stack,                      \* backtracking: the active calls of dfs
    result,                     \* what assign_rooms_to_groups returns/raises
    apc,                        \* position in assign_rooms_to_groups
    \* ---- seat_layout.assign_seats_in_room ----
    room_assignment,            \* list of (room, list of ids), dict order
    metadata,                   \* id -> metadata dict
    room_config,                \* room -> layout dict
    friend_graph,               \* id -> set of related ids
    room_idx,                   \* rooms of room_assignment already handled
    queue,                      \* examinees of the room still to be seated
    assigned_positions,         \* <<x, y>> -> id, of the room being seated
    seats,                      \* seat assignments of the room being seated
    adjacency_violations,       \* records (room, student_id, position)
    seating,                    \* room -> list of seat assignments
    returned,                   \* what assign_seats_in_room returns
    spc,                        \* position in assign_seats_in_room
    \* ---- the caller of the three stages ----
    earlier_run                 \* what the run before this one produced

cvars == <<df, friend_pairs, enable_friend_separation,
           enable_section_separation, graph, colors, color_order,
           color_groups, cpc>>

avars == <<groups, student_metadata, rooms_config, sorted_groups, group_idx,
           room_status, assignments, room_assignments, stack, result, apc>>

svars == <<room_assignment, metadata, room_config, friend_graph, room_idx,
           queue, assigned_positions, seats, adjacency_violations, seating,
           returned, spc>>

pvars == <<earlier_run>>

vars == <<cvars, avars, svars, pvars>>

-----------------------------------------------------------------------------
(* Bounds and input domains                                                *)

MaxStudents == 3

\* (ExamDate, ExamTime) values of the roster
Slots == { [ExamDate |-> "d1", ExamTime |-> "Morning"],
           [ExamDate |-> "d1", ExamTime |-> "Afternoon"],
           [ExamDate |-> "d2", ExamTime |-> "Morning"] }

\* (Batch, Year, Department) values of the roster
Sections == { [Batch |-> "A", Year |-> 1, Department |-> "CS"],
              [Batch |-> "B", Year |-> 2, Department |-> "CS"] }

MaxGroups == 2
MaxRooms == 2

\* sizes of the colour groups given to the allocator
GroupSizes == {1, 2}

\* metadata of the examinees given to the allocator
Profiles ==
    { [Year |-> "1", Subject |-> "s1", Department |-> "d1", Branch |-> "b1"],
      [Year |-> "2", Subject |-> "s2", Department |-> "d1", Branch |-> "b2"],
      [Year |-> "3", Subject |-> "s1", Department |-> "d2", Branch |-> "b2"] }

\* room configuration dicts (without room_name): the default ceilings, an
\* allowed_years list, ceilings of 1, and ceilings of 0
RoomCatalog ==
    << [capacity |-> 3],
       [capacity |-> 2, allowed_years |-> <<1, 2>>],
       [capacity |-> 3, max_subjects |-> 1],
       [capacity |-> 3, max_departments |-> 1, max_years |-> 0],
       [capacity |-> 2, max_branches |-> 1, max_departments |-> 0,
        max_years |-> 0] >>

RoomNames == <<"R1", "R2", "R3">>

MaxSeated == 4

\* nodes of the graphs given to dsatur_coloring
MaxNodes == 4

\* examinees of the roster given to the three stages run in a row
MaxExaminees == 3

\* exam slots of that roster
PipelineSlots == { [ExamDate |-> "d1", ExamTime |-> "Morning"],
                   [ExamDate |-> "d1", ExamTime |-> "Afternoon"] }

\* the other columns of its rows, by the parity of the identifier
PipelineColumns ==
    << [Batch |-> "A", Year |-> 1, Department |-> "CS", Subject |-> "s1"],
       [Batch |-> "B", Year |-> 2, Department |-> "CS", Subject |-> "s2"] >>

\* room lists of that run: two rooms of equal capacity; one room too small
\* for three examinees that takes one year only; two rooms that first-fit
\* fills in an order the ceilings reject
PipelineRooms ==
    << << [room_name |-> "R1", capacity |-> 2,
           layout_columns |-> 2, layout_rows |-> 1],
          [room_name |-> "R2", capacity |-> 2,
           layout_columns |-> 2, layout_rows |-> 2] >>,
       << [room_name |-> "R1", capacity |-> 2, max_years |-> 1,
           layout_columns |-> 2, layout_rows |-> 2] >>,
       << [room_name |-> "R1", capacity |-> 3, max_years |-> 1,
           layout_columns |-> 3, layout_rows |-> 1],
          [room_name |-> "R2", capacity |-> 2, allowed_years |-> <<1>>,
           layout_columns |-> 3, layout_rows |-> 2] >> >>

\* Year values of the metadata given to the seat placer
SeatYears == {"1", "2"}

\* layout dicts of the first room of a seating run
LayoutConfigs ==
    << [layout_columns |-> 1, layout_rows |-> 2],
       [layout_columns |-> 2, layout_rows |-> 2],
       [layout_columns |-> 3, layout_rows |-> 1],
       [columns |-> 3, rows |-> 2],
       [layout_columns |-> 2] >>

-----------------------------------------------------------------------------
(* Generic helpers                                                         *)

Range(s) == { s[i] : i \in DOMAIN s }

\* subsequence of s of the elements satisfying Keep, order preserved
RECURSIVE FilterSeq(_, _)
FilterSeq(s, keep) ==
    IF s = << >> THEN << >>
    ELSE IF Head(s) \in keep THEN <<Head(s)>> \o FilterSeq(Tail(s), keep)
         ELSE FilterSeq(Tail(s), keep)

-----------------------------------------------------------------------------
(* conflict_graph.py                                                       *)

FRIEND_EDGE_WEIGHT == 5
SECTION_EDGE_WEIGHT == 2
HARD_EDGE_WEIGHT == 10

EmptyGraph == [nodes |-> << >>, edges |-> {}, weight |-> << >>]

StudentIDs(d) == { d[i].StudentID : i \in DOMAIN d }

\* rows i < j with identical ExamDate and ExamTime
SameSlot(r1, r2) ==
    r1.ExamDate = r2.ExamDate /\ r1.ExamTime = r2.ExamTime

\* slip: the inner loop starts at i + 2 and skips the next row
HardEdges_SkipNext(d) ==
    { {d[i].StudentID, d[j].StudentID} :
        <<i, j>> \in { p \in (DOMAIN d) \X (DOMAIN d) :
                         p[1] + 1 < p[2] /\ SameSlot(d[p[1]], d[p[2]]) } }

HardEdges(d) ==
    { {d[i].StudentID, d[j].StudentID} :
        <<i, j>> \in { p \in (DOMAIN d) \X (DOMAIN d) :
                         p[1] < p[2] /\ SameSlot(d[p[1]], d[p[2]]) } }

\* the friend tuples both of whose endpoints are in the roster
AppliedFriendPairs(d, fp) ==
    { p \in fp : p[1] \in StudentIDs(d) /\ p[2] \in StudentIDs(d) }

FriendEdges(d, fp) == { {p[1], p[2]} : p \in AppliedFriendPairs(d, fp) }

section_key(row) == <<row.Batch, row.Year, row.Department>>

SectionPairs(d) ==
    { {d[i].StudentID, d[j].StudentID} :
        <<i, j>> \in { p \in (DOMAIN d) \X (DOMAIN d) :
                         p[1] < p[2]
                         /\ section_key(d[p[1]]) = section_key(d[p[2]]) } }

\* slip: a relationship pair overwrites the weight of an existing edge
build_enhanced_conflict_graph_FriendOverwrites(d, fp, section_separation) ==
    LET hard    == HardEdges(d)
        friends == FriendEdges(d, fp)
        first   == hard \cup friends
        section == IF section_separation THEN SectionPairs(d) \ first ELSE {}
        all     == first \cup section
        w(e)    == IF e \in section THEN SECTION_EDGE_WEIGHT
                   ELSE IF e \in friends THEN FRIEND_EDGE_WEIGHT
                   ELSE HARD_EDGE_WEIGHT
    IN [nodes  |-> [i \in DOMAIN d |-> d[i].StudentID],
        edges  |-> all,
        weight |-> [e \in all |-> w(e)]]

build_enhanced_conflict_graph(d, fp, section_separation) ==
    LET hard    == HardEdges(d)
        friends == FriendEdges(d, fp)
        first   == hard \cup friends
        section == IF section_separation THEN SectionPairs(d) \ first ELSE {}
        all     == first \cup section
        w(e)    == IF e \in section THEN SECTION_EDGE_WEIGHT
                   ELSE (IF e \in hard THEN HARD_EDGE_WEIGHT ELSE 0)
                        + FRIEND_EDGE_WEIGHT
                          * Cardinality({ p \in AppliedFriendPairs(d, fp) :
                                            {p[1], p[2]} = e })
    IN [nodes  |-> [i \in DOMAIN d |-> d[i].StudentID],
        edges  |-> all,
        weight |-> [e \in all |-> w(e)]]

\* slip: the else-branch adds the nodes and no edge
basic_conflict_graph_NodesOnly(d) ==
    [nodes  |-> [i \in DOMAIN d |-> d[i].StudentID],
     edges  |-> {},
     weight |-> << >>]

\* the else-branch of get_colored_groups: time conflicts only, no weights
basic_conflict_graph(d) ==
    [nodes  |-> [i \in DOMAIN d |-> d[i].StudentID],
     edges  |-> HardEdges(d),
     weight |-> << >>]

NodeSet(g) == Range(g.nodes)

neighbors(g, v) == { u \in NodeSet(g) : {u, v} \in g.edges }

degrees(g, v) == Cardinality(neighbors(g, v))

\* colours of the already coloured neighbours of v
saturation(g, col, v) == { col[u] : u \in neighbors(g, v) \cap DOMAIN col }

\* Python's max(seq, key): the first element whose key no element exceeds
LexGreater(a, b) == a[1] > b[1] \/ (a[1] = b[1] /\ a[2] > b[2])

MaxByKey(s, key) ==
    LET best == CHOOSE i \in DOMAIN s :
                  /\ \A j \in DOMAIN s : ~ LexGreater(key[s[j]], key[s[i]])
                  /\ \A j \in 1..(i-1) : LexGreater(key[s[i]], key[s[j]])
    IN s[best]

FirstNode(g) ==
    MaxByKey(g.nodes, [v \in NodeSet(g) |-> <<degrees(g, v), 0>>])

\* slip: the list keeps the nodes that already hold a colour
uncolored_AllNodes(g, col) == g.nodes

uncolored(g, col) == FilterSeq(g.nodes, NodeSet(g) \ DOMAIN col)

\* slip: the key is the saturation alone, without the degree
SelectNode_SaturationOnly(g, col) ==
    MaxByKey(uncolored(g, col),
             [v \in NodeSet(g) |-> <<Cardinality(saturation(g, col, v)), 0>>])

SelectNode(g, col) ==
    MaxByKey(uncolored(g, col),
             [v \in NodeSet(g) |->
                <<Cardinality(saturation(g, col, v)), degrees(g, v)>>])

\* slip: "if color in used_colors" instead of "while"
LowestColor_IfNotWhile(used) == IF 0 \in used THEN 1 ELSE 0

\* the smallest colour 0, 1, 2, ... that is not in used
LowestColor(used) ==
    CHOOSE c \in 0..Cardinality(used) :
        c \notin used /\ \A b \in 0..(c-1) : b \in used

\* slip: only the neighbours across a hard-conflict edge count
used_colors_HardOnly(g, col, v) ==
    { col[u] : u \in { n \in neighbors(g, v) \cap DOMAIN col :
                         {n, v} \in DOMAIN g.weight =>
                           g.weight[{n, v}] >= HARD_EDGE_WEIGHT } }

used_colors(g, col, v) == saturation(g, col, v)

\* groups[color].append(student) over color_mapping.items()
RECURSIVE GroupsOf(_, _, _)
GroupsOf(order, col, acc) ==
    IF order = << >> THEN acc
    ELSE LET v == Head(order)
             c == col[v]
             k == CHOOSE i \in 0..Len(acc) :
                    IF \E j \in DOMAIN acc : acc[j].color = c
                    THEN i > 0 /\ acc[i].color = c
                    ELSE i = 0
         IN GroupsOf(Tail(order), col,
               IF k = 0 THEN Append(acc, [color |-> c, members |-> <<v>>])
               ELSE [acc EXCEPT ![k].members = Append(@, v)])

-----------------------------------------------------------------------------
(* get_colored_groups as a state machine                                   *)

\* no run came before this one
NoRun == [kind |-> "none"]

SeatsIdle ==
    /\ room_assignment = << >>
    /\ metadata = << >>
    /\ room_config = << >>
    /\ friend_graph = << >>
    /\ room_idx = 0
    /\ queue = << >>
    /\ assigned_positions = << >>
    /\ seats = << >>
    /\ adjacency_violations = << >>
    /\ seating = << >>
    /\ returned = [kind |-> "pending"]
    /\ spc = "idle"

AllocIdle ==
    /\ groups = << >>
    /\ student_metadata = << >>
    /\ rooms_config = << >>
    /\ sorted_groups = << >>
    /\ group_idx = 0
    /\ room_status = << >>
    /\ assignments = << >>
    /\ room_assignments = << >>
    /\ stack = << >>
    /\ result = [kind |-> "pending"]
    /\ apc = "idle"

Rosters ==
    UNION { { [i \in 1..n |-> [StudentID |-> i,
                               ExamDate |-> sl[i].ExamDate,
                               ExamTime |-> sl[i].ExamTime,
                               Batch |-> se[i].Batch,
                               Year |-> se[i].Year,
                               Department |-> se[i].Department]] :
                <<sl, se>> \in [1..n -> Slots] \X [1..n -> Sections] } :
            n \in 0..MaxStudents }

\* relationship tuples over the identifiers 1..MaxStudents, one per pair
FriendPairSets ==
    SUBSET { p \in (1..MaxStudents) \X (1..MaxStudents) : p[1] < p[2] }

InitColor ==
    /\ earlier_run = NoRun
    /\ df \in Rosters
    /\ friend_pairs \in FriendPairSets
    /\ enable_friend_separation \in BOOLEAN
    /\ enable_section_separation \in BOOLEAN
    /\ graph = EmptyGraph
    /\ colors = << >>
    /\ color_order = << >>
    /\ color_groups = << >>
    /\ cpc = "build"
    /\ AllocIdle
    /\ SeatsIdle

\* get_colored_groups, lines 152-170
BuildGraph ==
    /\ cpc = "build"
    /\ graph' = IF enable_friend_separation \/ enable_section_separation
                THEN build_enhanced_conflict_graph(
                         df,
                         IF enable_friend_separation THEN friend_pairs ELSE {},
                         enable_section_separation)
                ELSE basic_conflict_graph(df)
    /\ cpc' = "dsatur"
    /\ UNCHANGED avars
    /\ UNCHANGED svars
    /\ UNCHANGED pvars
    /\ UNCHANGED <<df, friend_pairs, enable_friend_separation,
                   enable_section_separation, colors, color_order,
                   color_groups>>

\* dsatur_coloring, lines 101-110
ColorFirst ==
    /\ cpc = "dsatur"
    /\ IF Len(graph.nodes) = 0
       THEN /\ cpc' = "groups"
            /\ UNCHANGED <<colors, color_order>>
       ELSE LET current == FirstNode(graph)
            IN /\ colors' = (current :> 0)
               /\ color_order' = <<current>>
               /\ cpc' = "loop"
    /\ UNCHANGED avars
    /\ UNCHANGED svars
    /\ UNCHANGED pvars
    /\ UNCHANGED <<df, friend_pairs, enable_friend_separation,
                   enable_section_separation, graph, color_groups>>

\* slip: a tie between the nodes of the highest key goes to any of them
ColorNext_AnyMaximal ==
    /\ cpc = "loop"
    /\ Cardinality(DOMAIN colors) < Len(graph.nodes)
    /\ \E next_node \in
           { v \in Range(uncolored(graph, colors)) :
               \A u \in Range(uncolored(graph, colors)) :
                 ~ LexGreater(
                     <<Cardinality(saturation(graph, colors, u)),
                       degrees(graph, u)>>,
                     <<Cardinality(saturation(graph, colors, v)),
                       degrees(graph, v)>>) } :
         \E color \in { LowestColor(used_colors(graph, colors, next_node)) } :
           /\ colors' = [v \in DOMAIN colors \cup {next_node} |->
                            IF v = next_node THEN color ELSE colors[v]]
           /\ color_order' = IF next_node \in DOMAIN colors THEN color_order
                             ELSE Append(color_order, next_node)
    /\ UNCHANGED avars
    /\ UNCHANGED svars
    /\ UNCHANGED pvars
    /\ UNCHANGED <<df, friend_pairs, enable_friend_separation,
                   enable_section_separation, graph, color_groups, cpc>>

\* dsatur_coloring, one iteration of the while loop, lines 112-131
ColorNext ==
    /\ cpc = "loop"
    /\ Cardinality(DOMAIN colors) < Len(graph.nodes)
    /\ \E next_node \in { SelectNode(graph, colors) } :
         \E color \in { LowestColor(used_colors(graph, colors, next_node)) } :
           /\ colors' = [v \in DOMAIN colors \cup {next_node} |->
                            IF v = next_node THEN color ELSE colors[v]]
           /\ color_order' = IF next_node \in DOMAIN colors THEN color_order
                             ELSE Append(color_order, next_node)
    /\ UNCHANGED avars
    /\ UNCHANGED svars
    /\ UNCHANGED pvars
    /\ UNCHANGED <<df, friend_pairs, enable_friend_separation,
                   enable_section_separation, graph, color_groups, cpc>>

\* dsatur_coloring returns (line 133)
ColorReturn ==
    /\ cpc = "loop"
    /\ ~ (Cardinality(DOMAIN colors) < Len(graph.nodes))
    /\ cpc' = "groups"
    /\ UNCHANGED avars
    /\ UNCHANGED svars
    /\ UNCHANGED pvars
    /\ UNCHANGED <<df, friend_pairs, enable_friend_separation,
                   enable_section_separation, graph, colors, color_order,
                   color_groups>>

\* get_colored_groups, lines 172-177
BuildGroups ==
    /\ cpc = "groups"
    /\ color_groups' = GroupsOf(color_order, colors, << >>)
    /\ cpc' = "done"
    /\ UNCHANGED avars
    /\ UNCHANGED svars
    /\ UNCHANGED pvars
    /\ UNCHANGED <<df, friend_pairs, enable_friend_separation,
                   enable_section_separation, graph, colors, color_order>>

NextColor ==
    \/ BuildGraph
    \/ ColorFirst
    \/ ColorNext
    \/ ColorReturn
    \/ BuildGroups

SpecColor == InitColor /\ [][NextColor]_vars

\* the roster of twelve examinees over two exam slots, six per slot, in any
\* order of the rows; the sections either follow the slots or are one
ScenarioExaminees == 12

ScenarioSlots == << [ExamDate |-> "d1", ExamTime |-> "Morning"],
                   [ExamDate |-> "d1", ExamTime |-> "Afternoon"] >>

ScenarioSections == << [Batch |-> "A", Year |-> 1, Department |-> "CS"],
                      [Batch |-> "B", Year |-> 2, Department |-> "CS"] >>

ScenarioRosters ==
    { [i \in 1..ScenarioExaminees |->
         [StudentID |-> i,
          ExamDate |-> ScenarioSlots[IF i \in first THEN 1 ELSE 2].ExamDate,
          ExamTime |-> ScenarioSlots[IF i \in first THEN 1 ELSE 2].ExamTime,
          Batch |-> ScenarioSections[
                      IF by_slot /\ i \notin first THEN 2 ELSE 1].Batch,
          Year |-> ScenarioSections[
                      IF by_slot /\ i \notin first THEN 2 ELSE 1].Year,
          Department |-> "CS"]] :
        <<first, by_slot>> \in
           { half \in SUBSET (1..ScenarioExaminees) :
               2 * Cardinality(half) = ScenarioExaminees } \X BOOLEAN }

InitScenario ==
    /\ earlier_run = NoRun
    /\ df \in ScenarioRosters
    /\ friend_pairs = {}
    /\ enable_friend_separation \in BOOLEAN
    /\ enable_section_separation \in BOOLEAN
    /\ graph = EmptyGraph
    /\ colors = << >>
    /\ color_order = << >>
    /\ color_groups = << >>
    /\ cpc = "build"
    /\ AllocIdle
    /\ SeatsIdle

SpecScenario == InitScenario /\ [][NextColor]_vars

\* a roster whose examinees all sit on different days: its graph has the
\* relationship edges only, so every graph on the nodes 1..n is built
OwnDayRoster(n) ==
    [i \in 1..n |-> [StudentID |-> i, ExamDate |-> i, ExamTime |-> "Morning",
                     Batch |-> "A", Year |-> 1, Department |-> "CS"]]

InitDsatur ==
    /\ earlier_run = NoRun
    /\ \E n \in 0..MaxNodes :
         /\ df = OwnDayRoster(n)
         /\ friend_pairs \in SUBSET { p \in (1..n) \X (1..n) : p[1] < p[2] }
    /\ enable_friend_separation = TRUE
    /\ enable_section_separation = FALSE
    /\ graph = EmptyGraph
    /\ colors = << >>
    /\ color_order = << >>
    /\ color_groups = << >>
    /\ cpc = "build"
    /\ AllocIdle
    /\ SeatsIdle

SpecDsatur == InitDsatur /\ [][NextColor]_vars

\* get_colored_groups runs to its end: no step of it waits for anything
FairSpecDsatur == SpecDsatur /\ WF_vars(NextColor)

-----------------------------------------------------------------------------
(* room_assignment.py                                                      *)

\* dict.get(key, default)
Get(config, key, default) ==
    IF key \in DOMAIN config THEN config[key] ELSE default

RECURSIVE SumSeq(_)
SumSeq(s) == IF s = << >> THEN 0 ELSE Head(s) + SumSeq(Tail(s))

\* the order sorted(..., key, reverse=True) gives to the indices of keys:
\* descending keys, equal keys in their original order
StableDescOrder(keys) ==
    LET rank(i) == 1 + Cardinality({ j \in DOMAIN keys :
                                       \/ keys[j] > keys[i]
                                       \/ keys[j] = keys[i] /\ j < i })
    IN [k \in DOMAIN keys |-> CHOOSE i \in DOMAIN keys : rank(i) = k]

\* the decimal text of the years 1..6: str(year) and int(text)
YearText == <<"1", "2", "3", "4", "5", "6">>

StrOf(year) == YearText[year]

IntOf(text) == CHOOSE year \in DOMAIN YearText : YearText[year] = text

Student(student_id, info) ==
    [id         |-> student_id,
     year       |-> IntOf(info.Year),
     subject    |-> info.Subject,
     department |-> info.Department,
     branch     |-> Get(info, "Branch", Get(info, "Batch", "Unknown"))]

DefaultAllowedYears == {1, 2, 3, 4, 5, 6}

\* allowed_years: missing or empty means all years, a list gives its set
AllowedYearsOf(config) ==
    IF "allowed_years" \in DOMAIN config /\ config.allowed_years # << >>
    THEN Range(config.allowed_years)
    ELSE DefaultAllowedYears

\* slip: max_subjects defaults to 2, as max_departments and max_years do
RoomConfig_SubjectsDefaultTwo(config) ==
    [room_id         |-> config.room_name,
     capacity        |-> config.capacity,
     max_subjects    |-> Get(config, "max_subjects", 2),
     max_branches    |-> Get(config, "max_branches", 0),
     max_departments |-> Get(config, "max_departments", 2),
     max_years       |-> Get(config, "max_years", 2),
     allowed_years   |-> AllowedYearsOf(config)]

RoomConfig(config) ==
    [room_id         |-> config.room_name,
     capacity        |-> config.capacity,
     max_subjects    |-> Get(config, "max_subjects", 0),
     max_branches    |-> Get(config, "max_branches", 0),
     max_departments |-> Get(config, "max_departments", 2),
     max_years       |-> Get(config, "max_years", 2),
     allowed_years   |-> AllowedYearsOf(config)]

room_objects == [i \in DOMAIN rooms_config |-> RoomConfig(rooms_config[i])]

RoomIds == { room_objects[i].room_id : i \in DOMAIN room_objects }

\* slip: student_groups keyed by the student instead of by the colour
student_groups_PerStudent ==
    LET ids == UNION { Range(groups[k]) : k \in DOMAIN groups }
        nth(n) == CHOOSE sid \in ids :
                    Cardinality({ t \in ids : t < sid }) = n - 1
    IN [n \in 1..Cardinality(ids) |->
          << Student(nth(n), student_metadata[nth(n)]) >>]

student_groups ==
    [k \in DOMAIN groups |->
        [i \in DOMAIN groups[k] |->
            Student(groups[k][i], student_metadata[groups[k][i]])]]

\* slip: counts the groups instead of their members
total_students_CountGroups == Len(groups)

total_students == SumSeq([k \in DOMAIN groups |-> Len(groups[k])])

total_capacity ==
    SumSeq([i \in DOMAIN room_objects |-> room_objects[i].capacity])

\* sorted(groups.values(), key=len, reverse=True)
SortGroups(gs) ==
    LET order == StableDescOrder([k \in DOMAIN gs |-> Len(gs[k])])
    IN [k \in DOMAIN gs |-> gs[order[k]]]

group_years(group)       == { group[i].year : i \in DOMAIN group }
group_subjects(group)    == { group[i].subject : i \in DOMAIN group }
group_branches(group)    == { group[i].branch : i \in DOMAIN group }
group_departments(group) == { group[i].department : i \in DOMAIN group }
GroupIds(group)          == [i \in DOMAIN group |-> group[i].id]

InitialStatus(room) ==
    [remaining_capacity |-> room.capacity,
     subjects    |-> {},
     branches    |-> {},
     years       |-> {},
     departments |-> {}]

\* slip: the ceilings are compared with the group's own values only
FfdAccepts_GroupOnly(room, status, group) ==
    /\ ~ (Len(group) > status.remaining_capacity)
    /\ group_years(group) \subseteq room.allowed_years
    /\ ~ (room.max_years > 0
          /\ Cardinality(group_years(group)) > room.max_years)
    /\ ~ (room.max_departments > 0
          /\ Cardinality(group_departments(group)) > room.max_departments)
    /\ ~ (room.max_subjects > 0
          /\ Cardinality(group_subjects(group)) > room.max_subjects)
    /\ ~ (room.max_branches > 0
          /\ Cardinality(group_branches(group)) > room.max_branches)

\* first_fit_decreasing, lines 111-133: no "continue" is taken
FfdAccepts(room, status, group) ==
    /\ ~ (Len(group) > status.remaining_capacity)
    /\ group_years(group) \subseteq room.allowed_years
    /\ ~ (room.max_years > 0
          /\ Cardinality(status.years \cup group_years(group)) > room.max_years)
    /\ ~ (room.max_departments > 0
          /\ Cardinality(status.departments \cup group_departments(group))
               > room.max_departments)
    /\ ~ (room.max_subjects > 0
          /\ Cardinality(status.subjects \cup group_subjects(group))
               > room.max_subjects)
    /\ ~ (room.max_branches > 0
          /\ Cardinality(status.branches \cup group_branches(group))
               > room.max_branches)

\* slip: the allowed-years test is missing
can_place_NoAllowedYears(room, status, group_students) ==
    IF Len(group_students) > status.remaining_capacity THEN FALSE
    ELSE IF room.max_years > 0
            /\ Cardinality(status.years \cup group_years(group_students))
                 > room.max_years THEN FALSE
    ELSE IF room.max_departments > 0
            /\ Cardinality(status.departments
                           \cup group_departments(group_students))
                 > room.max_departments THEN FALSE
    ELSE IF room.max_subjects > 0
            /\ Cardinality(status.subjects \cup group_subjects(group_students))
                 > room.max_subjects THEN FALSE
    ELSE IF room.max_branches > 0
            /\ Cardinality(status.branches \cup group_branches(group_students))
                 > room.max_branches THEN FALSE
    ELSE TRUE

\* slip: a group that fills the room exactly is refused
can_place_StrictCapacity(room, status, group_students) ==
    IF Len(group_students) >= status.remaining_capacity THEN FALSE
    ELSE IF ~ (group_years(group_students) \subseteq room.allowed_years)
         THEN FALSE
    ELSE IF room.max_years > 0
            /\ Cardinality(status.years \cup group_years(group_students))
                 > room.max_years THEN FALSE
    ELSE IF room.max_departments > 0
            /\ Cardinality(status.departments
                           \cup group_departments(group_students))
                 > room.max_departments THEN FALSE
    ELSE IF room.max_subjects > 0
            /\ Cardinality(status.subjects \cup group_subjects(group_students))
                 > room.max_subjects THEN FALSE
    ELSE IF room.max_branches > 0
            /\ Cardinality(status.branches \cup group_branches(group_students))
                 > room.max_branches THEN FALSE
    ELSE TRUE

\* backtracking_assign.can_place, lines 180-209
can_place(room, status, group_students) ==
    IF Len(group_students) > status.remaining_capacity THEN FALSE
    ELSE IF ~ (group_years(group_students) \subseteq room.allowed_years)
         THEN FALSE
    ELSE IF room.max_years > 0
            /\ Cardinality(status.years \cup group_years(group_students))
                 > room.max_years THEN FALSE
    ELSE IF room.max_departments > 0
            /\ Cardinality(status.departments
                           \cup group_departments(group_students))
                 > room.max_departments THEN FALSE
    ELSE IF room.max_subjects > 0
            /\ Cardinality(status.subjects \cup group_subjects(group_students))
                 > room.max_subjects THEN FALSE
    ELSE IF room.max_branches > 0
            /\ Cardinality(status.branches \cup group_branches(group_students))
                 > room.max_branches THEN FALSE
    ELSE TRUE

\* slip: the capacity is reduced by one per group, not by the group's size
MakeAssignment_MinusOne(status, group) ==
    [status EXCEPT !.remaining_capacity = @ - 1,
                   !.subjects    = @ \cup group_subjects(group),
                   !.branches    = @ \cup group_branches(group),
                   !.years       = @ \cup group_years(group),
                   !.departments = @ \cup group_departments(group)]

\* the mutation both passes make when a room takes a group
MakeAssignment(status, group) ==
    [status EXCEPT !.remaining_capacity = @ - Len(group),
                   !.subjects    = @ \cup group_subjects(group),
                   !.branches    = @ \cup group_branches(group),
                   !.years       = @ \cup group_years(group),
                   !.departments = @ \cup group_departments(group)]

\* slip: the rooms are examined in the order of the room list
sorted_rooms_ListOrder(rooms, status) == [i \in DOMAIN rooms |-> i]

\* sorted(rooms, key=remaining_capacity, reverse=True), as room indices
sorted_rooms(rooms, status) ==
    StableDescOrder([i \in DOMAIN rooms |->
                       status[rooms[i].room_id].remaining_capacity])

\* index of the first room of sorted_rooms that takes the group, 0 if none
FfdChoice(rooms, status, group) ==
    LET order == sorted_rooms(rooms, status)
        ok(k) == FfdAccepts(rooms[order[k]],
                            status[rooms[order[k]].room_id], group)
    IN IF \E k \in DOMAIN order : ok(k)
       THEN order[CHOOSE k \in DOMAIN order :
                    ok(k) /\ \A j \in 1..(k-1) : ~ ok(j)]
       ELSE 0

\* slip: the scan of the rooms starts again at the first room after an undo
DfsChoice_FromFirstRoom(rooms, status, group, from) ==
    LET ok(r) == can_place(rooms[r], status[rooms[r].room_id], group)
    IN IF \E r \in DOMAIN rooms : ok(r)
       THEN CHOOSE r \in DOMAIN rooms :
              ok(r) /\ \A q \in 1..(r - 1) : ~ ok(q)
       ELSE 0

\* index of the first room after position from that can_place accepts, 0 if none
DfsChoice(rooms, status, group, from) ==
    LET ok(r) == can_place(rooms[r], status[rooms[r].room_id], group)
    IN IF \E r \in DOMAIN rooms : r > from /\ ok(r)
       THEN CHOOSE r \in DOMAIN rooms :
              /\ r > from /\ ok(r)
              /\ \A q \in (from + 1)..(r - 1) : ~ ok(q)
       ELSE 0

\* {rid: ids for rid, ids in assignments.items() if ids}
NonEmptyItems(asg) ==
    [rid \in { r \in DOMAIN asg : asg[r] # << >> } |-> asg[rid]]

CapacityError ==
    [text |-> "Not enough room capacity", Need |-> total_students,
     have |-> total_capacity]

InfeasibleError ==
    [text |-> "No valid room assignment possible with current constraints"]

NoAssignments == [rid \in RoomIds |-> << >>]

-----------------------------------------------------------------------------
(* assign_rooms_to_groups as a state machine                               *)

\* colour groups of consecutive identifiers 1, 2, ..., one list per colour
GroupsOfSizes(sizes) ==
    [k \in DOMAIN sizes |->
        [i \in 1..sizes[k] |-> SumSeq(SubSeq(sizes, 1, k - 1)) + i]]

ColorIdle ==
    /\ df = << >>
    /\ friend_pairs = {}
    /\ enable_friend_separation = FALSE
    /\ enable_section_separation = FALSE
    /\ graph = EmptyGraph
    /\ colors = << >>
    /\ color_order = << >>
    /\ color_groups = << >>
    /\ cpc = "idle"

InitRooms ==
    /\ earlier_run = NoRun
    /\ ColorIdle
    /\ SeatsIdle
    /\ \E n \in 0..MaxGroups : \E sizes \in [1..n -> GroupSizes] :
         /\ groups = GroupsOfSizes(sizes)
         /\ student_metadata \in [1..SumSeq(sizes) -> Profiles]
         /\ \A k \in DOMAIN groups : \A i, j \in DOMAIN groups[k] :
              i < j => IntOf(student_metadata[groups[k][i]].Year)
                         <= IntOf(student_metadata[groups[k][j]].Year)
    /\ \E m \in 0..MaxRooms : \E kind \in [1..m -> DOMAIN RoomCatalog] :
         rooms_config =
           [i \in 1..m |->
              [room_name |-> RoomNames[i]] @@ RoomCatalog[kind[i]]]
    /\ sorted_groups = << >>
    /\ group_idx = 0
    /\ room_status = << >>
    /\ assignments = << >>
    /\ room_assignments = << >>
    /\ stack = << >>
    /\ result = [kind |-> "pending"]
    /\ apc = "start"

\* assign_rooms_to_groups, lines 48-62, and the set-up of
\* first_fit_decreasing, lines 83-96
CheckCapacity ==
    /\ apc = "start"
    /\ IF total_students > total_capacity
       THEN /\ result' = [kind |-> "error", error |-> CapacityError]
            /\ apc' = "done"
            /\ UNCHANGED <<sorted_groups, room_status, assignments>>
       ELSE /\ sorted_groups' = SortGroups(student_groups)
            /\ \E rooms \in { room_objects } :
                 room_status' =
                   [rid \in RoomIds |->
                      LET room == rooms[CHOOSE i \in DOMAIN rooms :
                                          rooms[i].room_id = rid]
                      IN InitialStatus(room) @@ [students |-> << >>]]
            /\ assignments' = NoAssignments
            /\ apc' = "ffd"
            /\ UNCHANGED result
    /\ UNCHANGED <<groups, student_metadata, rooms_config, group_idx,
                   room_assignments, stack>>
    /\ UNCHANGED cvars
    /\ UNCHANGED svars
    /\ UNCHANGED pvars

\* first_fit_decreasing, one iteration of "for group in sorted_groups"
\* that places the group, lines 98-144
FfdPlace ==
    /\ apc = "ffd"
    /\ group_idx < Len(sorted_groups)
    /\ \E rooms \in { room_objects } :
         LET group == sorted_groups[group_idx + 1]
         IN \E r \in { FfdChoice(rooms, room_status, group) } :
              /\ r # 0
              /\ room_status' =
                   [room_status EXCEPT
                      ![rooms[r].room_id] =
                         [MakeAssignment(@, group) EXCEPT
                            !.students = @ \o GroupIds(group)]]
              /\ assignments' =
                   [assignments EXCEPT
                      ![rooms[r].room_id] = @ \o GroupIds(group)]
    /\ group_idx' = group_idx + 1
    /\ UNCHANGED <<groups, student_metadata, rooms_config, sorted_groups,
                   room_assignments, stack, result, apc>>
    /\ UNCHANGED cvars
    /\ UNCHANGED svars
    /\ UNCHANGED pvars

\* first_fit_decreasing returns final_assignments, lines 150-155 and 66-67
FfdReturn ==
    /\ apc = "ffd"
    /\ group_idx = Len(sorted_groups)
    /\ result' = [kind |-> "ok", rooms |-> NonEmptyItems(assignments)]
    /\ apc' = "done"
    /\ UNCHANGED <<groups, student_metadata, rooms_config, sorted_groups,
                   group_idx, room_status, assignments, room_assignments,
                   stack>>
    /\ UNCHANGED cvars
    /\ UNCHANGED svars
    /\ UNCHANGED pvars

\* a group that no room takes: first_fit_decreasing returns None (lines
\* 146-151) and backtracking_assign starts (lines 70, 168-178, 256)
FfdFail ==
    /\ apc = "ffd"
    /\ group_idx < Len(sorted_groups)
    /\ \E rooms \in { room_objects } :
         /\ FfdChoice(rooms, room_status, sorted_groups[group_idx + 1]) = 0
         /\ room_status' =
              [rid \in RoomIds |->
                 InitialStatus(rooms[CHOOSE i \in DOMAIN rooms :
                                       rooms[i].room_id = rid])]
    /\ sorted_groups' = SortGroups(student_groups)
    /\ room_assignments' = NoAssignments
    /\ stack' = << [index |-> 0, room |-> 0] >>
    /\ apc' = "dfs"
    /\ UNCHANGED <<groups, student_metadata, rooms_config, group_idx,
                   assignments, result>>
    /\ UNCHANGED cvars
    /\ UNCHANGED svars
    /\ UNCHANGED pvars

\* dfs(index): the next room of "for room in rooms" that can_place accepts
\* takes the group and dfs(index + 1) is called, lines 215-240
DfsPlace ==
    /\ apc = "dfs"
    /\ stack[Len(stack)].index < Len(sorted_groups)
    /\ \E rooms \in { room_objects } :
         LET top   == stack[Len(stack)]
             group == sorted_groups[top.index + 1]
         IN \E r \in { DfsChoice(rooms, room_status, group, top.room) } :
              /\ r # 0
              /\ stack' =
                   Append([stack EXCEPT ![Len(stack)] =
                             [index |-> top.index, room |-> r,
                              original_status |->
                                 room_status[rooms[r].room_id]]],
                          [index |-> top.index + 1, room |-> 0])
              /\ room_status' =
                   [room_status EXCEPT
                      ![rooms[r].room_id] = MakeAssignment(@, group)]
              /\ room_assignments' =
                   [room_assignments EXCEPT
                      ![rooms[r].room_id] = @ \o GroupIds(group)]
    /\ UNCHANGED <<groups, student_metadata, rooms_config, sorted_groups,
                   group_idx, assignments, result, apc>>
    /\ UNCHANGED cvars
    /\ UNCHANGED svars
    /\ UNCHANGED pvars

\* the call on top of the stack has no room left for its group
Exhausted(rooms) ==
    LET top == stack[Len(stack)]
    IN /\ top.index < Len(sorted_groups)
       /\ DfsChoice(rooms, room_status, sorted_groups[top.index + 1],
                    top.room) = 0

\* slip: the undo leaves the group's identifiers in the room's list
DfsBacktrack_KeepList ==
    /\ apc = "dfs"
    /\ Len(stack) >= 2
    /\ \E rooms \in { room_objects } :
         LET caller == stack[Len(stack) - 1]
             rid    == rooms[caller.room].room_id
         IN /\ Exhausted(rooms)
            /\ room_status' =
                 [room_status EXCEPT ![rid] = caller.original_status]
            /\ stack' = SubSeq(stack, 1, Len(stack) - 1)
    /\ UNCHANGED <<groups, student_metadata, rooms_config, sorted_groups,
                   group_idx, assignments, room_assignments, result, apc>>
    /\ UNCHANGED cvars
    /\ UNCHANGED svars
    /\ UNCHANGED pvars

\* slip: the undo does not restore remaining_capacity
DfsBacktrack_KeepCapacity ==
    /\ apc = "dfs"
    /\ Len(stack) >= 2
    /\ \E rooms \in { room_objects } :
         LET caller == stack[Len(stack) - 1]
             group  == sorted_groups[caller.index + 1]
             rid    == rooms[caller.room].room_id
         IN /\ Exhausted(rooms)
            /\ room_status' =
                 [room_status EXCEPT
                    ![rid] = [caller.original_status EXCEPT
                                !.remaining_capacity =
                                   room_status[rid].remaining_capacity]]
            /\ room_assignments' =
                 [room_assignments EXCEPT
                    ![rid] = FilterSeq(@, Range(@) \ Range(GroupIds(group)))]
            /\ stack' = SubSeq(stack, 1, Len(stack) - 1)
    /\ UNCHANGED <<groups, student_metadata, rooms_config, sorted_groups,
                   group_idx, assignments, result, apc>>
    /\ UNCHANGED cvars
    /\ UNCHANGED svars
    /\ UNCHANGED pvars

\* slip: the undo does not restore the subjects of the room
DfsBacktrack_KeepSubjects ==
    /\ apc = "dfs"
    /\ Len(stack) >= 2
    /\ \E rooms \in { room_objects } :
         LET caller == stack[Len(stack) - 1]
             group  == sorted_groups[caller.index + 1]
             rid    == rooms[caller.room].room_id
         IN /\ Exhausted(rooms)
            /\ room_status' =
                 [room_status EXCEPT
                    ![rid] = [caller.original_status EXCEPT
                                !.subjects = room_status[rid].subjects]]
            /\ room_assignments' =
                 [room_assignments EXCEPT
                    ![rid] = FilterSeq(@, Range(@) \ Range(GroupIds(group)))]
            /\ stack' = SubSeq(stack, 1, Len(stack) - 1)
    /\ UNCHANGED <<groups, student_metadata, rooms_config, sorted_groups,
                   group_idx, assignments, result, apc>>
    /\ UNCHANGED cvars
    /\ UNCHANGED svars
    /\ UNCHANGED pvars

\* dfs(index + 1) returns False (line 254) and its caller undoes its own
\* choice, lines 243-252
DfsBacktrack ==
    /\ apc = "dfs"
    /\ Len(stack) >= 2
    /\ \E rooms \in { room_objects } :
         LET caller == stack[Len(stack) - 1]
             group  == sorted_groups[caller.index + 1]
             rid    == rooms[caller.room].room_id
         IN /\ Exhausted(rooms)
            /\ room_status' =
                 [room_status EXCEPT ![rid] = caller.original_status]
            /\ room_assignments' =
                 [room_assignments EXCEPT
                    ![rid] = FilterSeq(@, Range(@) \ Range(GroupIds(group)))]
            /\ stack' = SubSeq(stack, 1, Len(stack) - 1)
    /\ UNCHANGED <<groups, student_metadata, rooms_config, sorted_groups,
                   group_idx, assignments, result, apc>>
    /\ UNCHANGED cvars
    /\ UNCHANGED svars
    /\ UNCHANGED pvars

\* dfs(len(sorted_groups)) returns True, every caller returns True, and
\* backtracking_assign returns the non-empty lists, lines 212-213, 240, 256-257
DfsSuccess ==
    /\ apc = "dfs"
    /\ stack[Len(stack)].index = Len(sorted_groups)
    /\ result' = [kind |-> "ok", rooms |-> NonEmptyItems(room_assignments)]
    /\ stack' = << >>
    /\ apc' = "done"
    /\ UNCHANGED <<groups, student_metadata, rooms_config, sorted_groups,
                   group_idx, room_status, assignments, room_assignments>>
    /\ UNCHANGED cvars
    /\ UNCHANGED svars
    /\ UNCHANGED pvars

\* dfs(0) returns False: backtracking_assign raises, lines 254-259
DfsRaise ==
    /\ apc = "dfs"
    /\ Len(stack) = 1
    /\ Exhausted(room_objects)
    /\ result' = [kind |-> "error", error |-> InfeasibleError]
    /\ stack' = << >>
    /\ apc' = "done"
    /\ UNCHANGED <<groups, student_metadata, rooms_config, sorted_groups,
                   group_idx, room_status, assignments, room_assignments>>
    /\ UNCHANGED cvars
    /\ UNCHANGED svars
    /\ UNCHANGED pvars

NextRooms ==
    \/ CheckCapacity
    \/ FfdPlace
    \/ FfdReturn
    \/ FfdFail
    \/ DfsPlace
    \/ DfsBacktrack
    \/ DfsSuccess
    \/ DfsRaise

SpecRooms == InitRooms /\ [][NextRooms]_vars

-----------------------------------------------------------------------------
(* assign_rooms_to_groups on inputs that make the fallback search deeper   *)

\* colour groups and rooms of these inputs
MaxDfsGroups == 3
MaxDfsRooms == 2

\* metadata of their examinees, the same for the members of one group
DfsProfiles == { p \in Profiles : p.Year \in {"1", "2"} }

\* their rooms: the default ceilings, max_subjects 1, and max_branches 1
\* with a capacity of 2
DfsRoomKinds == {1, 3, 5}

InitDfs ==
    /\ earlier_run = NoRun
    /\ ColorIdle
    /\ SeatsIdle
    /\ \E n \in 0..MaxDfsGroups : \E sizes \in [1..n -> GroupSizes] :
         \E profile \in [1..n -> DfsProfiles] :
           /\ groups = GroupsOfSizes(sizes)
           /\ student_metadata =
                [id \in 1..SumSeq(sizes) |->
                   profile[CHOOSE k \in 1..n :
                             id \in Range(GroupsOfSizes(sizes)[k])]]
    /\ \E m \in 1..MaxDfsRooms : \E kind \in [1..m -> DfsRoomKinds] :
         rooms_config =
           [i \in 1..m |->
              [room_name |-> RoomNames[i]] @@ RoomCatalog[kind[i]]]
    /\ sorted_groups = << >>
    /\ group_idx = 0
    /\ room_status = << >>
    /\ assignments = << >>
    /\ room_assignments = << >>
    /\ stack = << >>
    /\ result = [kind |-> "pending"]
    /\ apc = "start"

SpecDfs == InitDfs /\ [][NextRooms]_vars

\* the allocator is one sequential run: it takes its next step as long as
\* it has one
FairSpecDfs == SpecDfs /\ WF_vars(NextRooms)

-----------------------------------------------------------------------------
(* seat_layout.py                                                          *)

DefaultColumns == 6
DefaultRows == 5

\* slip: only the four orthogonal neighbours count
get_adjacent_positions_Orthogonal(x, y, cols, rows) ==
    { <<x + dx, y + dy>> :
        <<dx, dy>> \in { d \in {-1, 0, 1} \X {-1, 0, 1} :
                          /\ (d[1] = 0) # (d[2] = 0)
                          /\ 0 <= x + d[1] /\ x + d[1] < cols
                          /\ 0 <= y + d[2] /\ y + d[2] < rows } }

\* get_adjacent_positions: the cells of the grid around (x, y)
get_adjacent_positions(x, y, cols, rows) ==
    { <<x + dx, y + dy>> :
        <<dx, dy>> \in { d \in {-1, 0, 1} \X {-1, 0, 1} :
                          /\ ~ (d[1] = 0 /\ d[2] = 0)
                          /\ 0 <= x + d[1] /\ x + d[1] < cols
                          /\ 0 <= y + d[2] /\ y + d[2] < rows } }

is_adjacent_to_friend(x, y, student_id, assigned, fg, cols, rows) ==
    IF student_id \notin DOMAIN fg THEN FALSE
    ELSE \E adj \in get_adjacent_positions(x, y, cols, rows) :
           adj \in DOMAIN assigned /\ assigned[adj] \in fg[student_id]

CellOf(idx, cols) == << idx % cols, idx \div cols >>

\* slip: the first pass does not skip the occupied cells (lines 63-64)
find_non_adjacent_position_NoFreeCheck(student_id, assigned, fg, cols, rows) ==
    LET total_seats == cols * rows
        free(idx)  == CellOf(idx, cols) \notin DOMAIN assigned
        clear(idx) == ~ is_adjacent_to_friend(
                          idx % cols, idx \div cols, student_id,
                          assigned, fg, cols, rows)
        pos(idx) == << idx % cols, idx \div cols, idx + 1 >>
    IN IF \E idx \in 0..(total_seats - 1) : clear(idx)
       THEN pos(CHOOSE idx \in 0..(total_seats - 1) :
                  clear(idx) /\ \A j \in 0..(idx - 1) : ~ clear(j))
       ELSE IF \E idx \in 0..(total_seats - 1) : free(idx)
       THEN pos(CHOOSE idx \in 0..(total_seats - 1) :
                  free(idx) /\ \A j \in 0..(idx - 1) : ~ free(j))
       ELSE << >>

\* slip: the first pass is missing, every examinee takes the first free cell
find_non_adjacent_position_FirstFree(student_id, assigned, fg, cols, rows) ==
    LET total_seats == cols * rows
        free(idx)  == CellOf(idx, cols) \notin DOMAIN assigned
        pos(idx) == << idx % cols, idx \div cols, idx + 1 >>
    IN IF \E idx \in 0..(total_seats - 1) : free(idx)
       THEN pos(CHOOSE idx \in 0..(total_seats - 1) :
                  free(idx) /\ \A j \in 0..(idx - 1) : ~ free(j))
       ELSE << >>

\* find_non_adjacent_position: <<x, y, seat_no>>, or << >> for None
find_non_adjacent_position(student_id, assigned, fg, cols, rows) ==
    LET total_seats == cols * rows
        free(idx)  == CellOf(idx, cols) \notin DOMAIN assigned
        clear(idx) == /\ free(idx)
                      /\ ~ is_adjacent_to_friend(
                             idx % cols, idx \div cols, student_id,
                             assigned, fg, cols, rows)
        pos(idx) == << idx % cols, idx \div cols, idx + 1 >>
    IN IF \E idx \in 0..(total_seats - 1) : clear(idx)
       THEN pos(CHOOSE idx \in 0..(total_seats - 1) :
                  clear(idx) /\ \A j \in 0..(idx - 1) : ~ clear(j))
       ELSE IF \E idx \in 0..(total_seats - 1) : free(idx)
       THEN pos(CHOOSE idx \in 0..(total_seats - 1) :
                  free(idx) /\ \A j \in 0..(idx - 1) : ~ free(j))
       ELSE << >>

\* the cells (col, row, idx + 1) with col in range(start(row), cols, 2), rows
\* in order
RECURSIVE CheckerPass(_, _, _, _)
CheckerPass(cols, rows, first, idx) ==
    IF idx >= cols * rows THEN << >>
    ELSE LET col   == idx % cols
             row   == idx \div cols
             start == IF first THEN row % 2 ELSE 1 - (row % 2)
             rest  == CheckerPass(cols, rows, first, idx + 1)
         IN IF col >= start /\ (col - start) % 2 = 0
            THEN << <<col, row, idx + 1>> >> \o rest
            ELSE rest

Take(s, n) == SubSeq(s, 1, IF n < Len(s) THEN n ELSE Len(s))

Max2(a, b) == IF a >= b THEN a ELSE b

\* slip: the positions are numbered in the order they are filled
get_spread_positions_FillOrder(num_students, cols, rows) ==
    LET total_seats == cols * rows
        sequential(n) == [k \in 1..n |-> << (k - 1) % cols,
                                            (k - 1) \div cols, k >>]
        checker == Take(CheckerPass(cols, rows, TRUE, 0)
                          \o CheckerPass(cols, rows, FALSE, 0), num_students)
    IN IF num_students >= total_seats THEN sequential(total_seats)
       ELSE IF Max2(1, total_seats \div num_students) >= 2
            THEN [k \in DOMAIN checker |->
                    << checker[k][1], checker[k][2], k >>]
            ELSE sequential(IF num_students < total_seats
                            THEN num_students ELSE total_seats)

\* slip: the checkerboard is used whenever the room is not full
get_spread_positions_AlwaysCheckerboard(num_students, cols, rows) ==
    LET total_seats == cols * rows
        sequential(n) == [k \in 1..n |-> << (k - 1) % cols,
                                            (k - 1) \div cols, k >>]
    IN IF num_students >= total_seats THEN sequential(total_seats)
       ELSE Take(CheckerPass(cols, rows, TRUE, 0)
                   \o CheckerPass(cols, rows, FALSE, 0), num_students)

get_spread_positions(num_students, cols, rows) ==
    LET total_seats == cols * rows
        sequential(n) == [k \in 1..n |-> << (k - 1) % cols,
                                            (k - 1) \div cols, k >>]
    IN IF num_students >= total_seats THEN sequential(total_seats)
       ELSE IF Max2(1, total_seats \div num_students) >= 2
            THEN Take(CheckerPass(cols, rows, TRUE, 0)
                        \o CheckerPass(cols, rows, FALSE, 0), num_students)
            ELSE sequential(IF num_students < total_seats
                            THEN num_students ELSE total_seats)

\* interleave_groups: one member of every non-empty queue per round
RECURSIVE interleave_groups(_)
interleave_groups(queues) ==
    LET non_empty == FilterSeq(queues, Range(queues) \ {<< >>})
    IN IF non_empty = << >> THEN << >>
       ELSE [k \in DOMAIN non_empty |-> Head(non_empty[k])]
            \o interleave_groups([k \in DOMAIN non_empty |->
                                    Tail(non_empty[k])])

\* metadata.get(sid, {}).get('Year', 'Unknown')
YearOf(meta, sid) ==
    IF sid \in DOMAIN meta THEN Get(meta[sid], "Year", "Unknown")
    ELSE "Unknown"

\* year_groups.values(): the years in order of first appearance, each with
\* its examinees in list order
RECURSIVE YearKeys(_, _, _)
YearKeys(students, meta, seen) ==
    IF students = << >> THEN seen
    ELSE LET y == YearOf(meta, Head(students))
         IN YearKeys(Tail(students), meta,
                     IF y \in Range(seen) THEN seen ELSE Append(seen, y))

year_groups(students, meta) ==
    LET keys == YearKeys(students, meta, << >>)
    IN [k \in DOMAIN keys |->
          FilterSeq(students,
                    { sid \in Range(students) : YearOf(meta, sid) = keys[k] })]

\* the grid of a room: its layout dict, or 6 x 5
ColumnsOf(config, room) ==
    IF room \in DOMAIN config
    THEN Get(config[room], "layout_columns",
             Get(config[room], "columns", DefaultColumns))
    ELSE DefaultColumns

RowsOf(config, room) ==
    IF room \in DOMAIN config
    THEN Get(config[room], "layout_rows",
             Get(config[room], "rows", DefaultRows))
    ELSE DefaultRows

Seat(pos, student_id) ==
    [x |-> pos[1], y |-> pos[2], student_id |-> student_id, seat_no |-> pos[3]]

\* slip: every examinee of the queue gets a seat assignment, the positions
\* being used again from the first one when they run out
SpreadSeats_ReusePositions(q, cols, rows) ==
    LET positions == get_spread_positions(Len(q), cols, rows)
    IN [k \in 1..(IF positions = << >> THEN 0 ELSE Len(q))
          |-> Seat(positions[((k - 1) % Len(positions)) + 1], q[k])]

\* assign_seats_in_room, lines 244-266: queue and positions zipped
SpreadSeats(q, cols, rows) ==
    LET positions == get_spread_positions(Len(q), cols, rows)
    IN [k \in 1..(IF Len(q) < Len(positions) THEN Len(q) ELSE Len(positions))
          |-> Seat(positions[k], q[k])]

-----------------------------------------------------------------------------
(* assign_seats_in_room as a state machine                                 *)

\* symmetric relationship maps over the identifiers 1..n: every examinee
\* with a related examinee has an entry
FriendGraphOf(pairs) ==
    LET ids == UNION pairs
    IN [sid \in ids |-> { t \in ids : {sid, t} \in pairs }]

UnorderedPairs(n) == { {a, b} : <<a, b>> \in { p \in (1..n) \X (1..n) : p[1] < p[2] } }

InitSeats ==
    /\ earlier_run = NoRun
    /\ ColorIdle
    /\ AllocIdle
    /\ \E n \in 0..MaxSeated : \E k \in 0..n :
         /\ room_assignment =
              << [room |-> RoomNames[1], students |-> [i \in 1..k |-> i]],
                 [room |-> RoomNames[2],
                  students |-> [i \in 1..(n - k) |-> k + i]] >>
         /\ metadata \in [1..n -> { [Year |-> y] : y \in SeatYears }]
         /\ \E pairs \in SUBSET UnorderedPairs(n) :
              friend_graph = FriendGraphOf(pairs)
    /\ \E l \in DOMAIN LayoutConfigs :
         room_config = (RoomNames[1] :> LayoutConfigs[l])
    /\ room_idx = 0
    /\ queue = << >>
    /\ assigned_positions = << >>
    /\ seats = << >>
    /\ adjacency_violations = << >>
    /\ seating = << >>
    /\ returned = [kind |-> "pending"]
    /\ spc = "start"

WithSeparation == DOMAIN friend_graph # {}

CurrentRoom == room_assignment[room_idx + 1]

\* assign_seats_in_room without relationship data: one iteration of
\* "for room, students in room_assignment.items()", lines 223-268
SeatRoomSpread ==
    /\ spc = "start"
    /\ ~ WithSeparation
    /\ room_idx < Len(room_assignment)
    /\ LET room     == CurrentRoom.room
           students == CurrentRoom.students
           cols     == ColumnsOf(room_config, room)
           rows     == RowsOf(room_config, room)
           q        == interleave_groups(year_groups(students, metadata))
       IN seating' = IF students = << >> THEN seating
                     ELSE seating @@ (room :> SpreadSeats(q, cols, rows))
    /\ room_idx' = room_idx + 1
    /\ UNCHANGED <<room_assignment, metadata, room_config, friend_graph,
                   queue, assigned_positions, seats, adjacency_violations,
                   returned, spc>>
    /\ UNCHANGED cvars
    /\ UNCHANGED avars
    /\ UNCHANGED pvars

\* slip: the queue is the room's list as it came, not interleaved
SeatRoomBegin_ListOrder ==
    /\ spc = "start"
    /\ WithSeparation
    /\ room_idx < Len(room_assignment)
    /\ IF CurrentRoom.students = << >>
       THEN /\ room_idx' = room_idx + 1
            /\ UNCHANGED <<queue, spc>>
       ELSE /\ queue' = CurrentRoom.students
            /\ spc' = "place"
            /\ UNCHANGED room_idx
    /\ seats' = << >>
    /\ assigned_positions' = << >>
    /\ UNCHANGED <<room_assignment, metadata, room_config, friend_graph,
                   adjacency_violations, seating, returned>>
    /\ UNCHANGED cvars
    /\ UNCHANGED avars
    /\ UNCHANGED pvars

\* assign_seats_with_separation: a room starts, lines 103-126
SeatRoomBegin ==
    /\ spc = "start"
    /\ WithSeparation
    /\ room_idx < Len(room_assignment)
    /\ IF CurrentRoom.students = << >>
       THEN /\ room_idx' = room_idx + 1
            /\ UNCHANGED <<queue, spc>>
       ELSE /\ queue' = interleave_groups(
                           year_groups(CurrentRoom.students, metadata))
            /\ spc' = "place"
            /\ UNCHANGED room_idx
    /\ seats' = << >>
    /\ assigned_positions' = << >>
    /\ UNCHANGED <<room_assignment, metadata, room_config, friend_graph,
                   adjacency_violations, seating, returned>>
    /\ UNCHANGED cvars
    /\ UNCHANGED avars
    /\ UNCHANGED pvars

\* assign_seats_with_separation: one iteration of "for student_id in
\* queue", lines 128-160
PlaceStudent ==
    /\ spc = "place"
    /\ queue # << >>
    /\ LET student_id == Head(queue)
           room       == CurrentRoom.room
           cols       == ColumnsOf(room_config, room)
           rows       == RowsOf(room_config, room)
       IN \E position \in { find_non_adjacent_position(
                               student_id, assigned_positions, friend_graph,
                               cols, rows) } :
            IF position = << >>
            THEN UNCHANGED <<assigned_positions, seats, adjacency_violations>>
            ELSE \E placed \in { assigned_positions
                                   @@ (<<position[1], position[2]>>
                                         :> student_id) } :
                   /\ assigned_positions' = placed
                   /\ adjacency_violations' =
                        IF is_adjacent_to_friend(
                               position[1], position[2], student_id, placed,
                               friend_graph, cols, rows)
                        THEN Append(adjacency_violations,
                                    [room |-> room, student_id |-> student_id,
                                     position |-> <<position[1], position[2]>>])
                        ELSE adjacency_violations
                   /\ seats' = Append(seats, Seat(position, student_id))
    /\ queue' = Tail(queue)
    /\ UNCHANGED <<room_assignment, metadata, room_config, friend_graph,
                   room_idx, seating, returned, spc>>
    /\ UNCHANGED cvars
    /\ UNCHANGED avars
    /\ UNCHANGED pvars

\* assign_seats_with_separation: the room is finished, line 162
SeatRoomEnd ==
    /\ spc = "place"
    /\ queue = << >>
    /\ seating' = seating @@ (CurrentRoom.room :> seats)
    /\ room_idx' = room_idx + 1
    /\ spc' = "start"
    /\ UNCHANGED <<room_assignment, metadata, room_config, friend_graph,
                   queue, assigned_positions, seats, adjacency_violations,
                   returned>>
    /\ UNCHANGED cvars
    /\ UNCHANGED avars
    /\ UNCHANGED pvars

\* "return seating", lines 164 and 270
SeatsReturn ==
    /\ spc = "start"
    /\ room_idx = Len(room_assignment)
    /\ returned' = [kind |-> "ok", seating |-> seating]
    /\ spc' = "done"
    /\ UNCHANGED <<room_assignment, metadata, room_config, friend_graph,
                   room_idx, queue, assigned_positions, seats,
                   adjacency_violations, seating>>
    /\ UNCHANGED cvars
    /\ UNCHANGED avars
    /\ UNCHANGED pvars

NextSeats ==
    \/ SeatRoomSpread
    \/ SeatRoomBegin
    \/ PlaceStudent
    \/ SeatRoomEnd
    \/ SeatsReturn

SpecSeats == InitSeats /\ [][NextSeats]_vars

-----------------------------------------------------------------------------
(* assign_seats_in_room on one room of examinees of up to three years      *)

\* examinees of the room
MaxQueued == 5

\* their years
QueueYears == {"1", "2", "3"}

\* one room without a layout of its own (6 x 5 cells); no relationship, or
\* one related pair
InitQueue ==
    /\ earlier_run = NoRun
    /\ ColorIdle
    /\ AllocIdle
    /\ \E n \in 0..MaxQueued :
         /\ room_assignment =
              << [room |-> RoomNames[1], students |-> [i \in 1..n |-> i]] >>
         /\ metadata \in [1..n -> { [Year |-> y] : y \in QueueYears }]
         /\ \E pairs \in {{}} \cup { {p} : p \in UnorderedPairs(n) } :
              friend_graph = FriendGraphOf(pairs)
    /\ room_config = << >>
    /\ room_idx = 0
    /\ queue = << >>
    /\ assigned_positions = << >>
    /\ seats = << >>
    /\ adjacency_violations = << >>
    /\ seating = << >>
    /\ returned = [kind |-> "pending"]
    /\ spc = "start"

SpecQueue == InitQueue /\ [][NextSeats]_vars

-----------------------------------------------------------------------------
(* assign_seats_in_room on one room with about as many examinees as cells  *)

\* examinees beyond the cells of the grid
MaxExcess == 2

\* the room configuration: none (the 6 x 5 grid), or a small grid
CrowdedConfigs ==
    { << >>,
      (RoomNames[1] :> [layout_columns |-> 1, layout_rows |-> 2]),
      (RoomNames[1] :> [columns |-> 2, rows |-> 2]) }

\* relationship pairs of these runs: none, the first two examinees, or the
\* first and the last one
CrowdedPairs(n) ==
    { pairs \in { {}, {{1, 2}}, {{1, n}} } : \A p \in pairs :
        Cardinality(p) = 2 /\ p \subseteq 1..n }

\* the examinees 1..n of one room, those up to a split of year 1 and the
\* others of year 2
InitCrowded ==
    /\ earlier_run = NoRun
    /\ ColorIdle
    /\ AllocIdle
    /\ room_config \in CrowdedConfigs
    /\ \E n \in 0..(ColumnsOf(room_config, RoomNames[1])
                      * RowsOf(room_config, RoomNames[1]) + MaxExcess) :
         /\ room_assignment =
              << [room |-> RoomNames[1], students |-> [i \in 1..n |-> i]] >>
         /\ \E split \in 0..n :
              metadata = [i \in 1..n |->
                            [Year |-> IF i <= split THEN "1" ELSE "2"]]
         /\ \E pairs \in CrowdedPairs(n) :
              friend_graph = FriendGraphOf(pairs)
    /\ room_idx = 0
    /\ queue = << >>
    /\ assigned_positions = << >>
    /\ seats = << >>
    /\ adjacency_violations = << >>
    /\ seating = << >>
    /\ returned = [kind |-> "pending"]
    /\ spc = "start"

SpecCrowded == InitCrowded /\ [][NextSeats]_vars

-----------------------------------------------------------------------------
(* The three stages run in a row, twice on the same inputs                 *)

\* conflict_graph.extract_student_metadata
extract_student_metadata(d) ==
    [id \in StudentIDs(d) |->
       LET row == d[CHOOSE i \in DOMAIN d : d[i].StudentID = id]
       IN [Department |-> row.Department,
           Subject    |-> row.Subject,
           ExamTime   |-> row.ExamTime,
           ExamDate   |-> row.ExamDate,
           Year       |-> StrOf(row.Year),
           Branch     |-> row.Batch,
           Batch      |-> row.Batch]]

\* the relationship map of the relationship pairs
friends_map(pairs) == FriendGraphOf({ {p[1], p[2]} : p \in pairs })

\* {r['room_name']: r for r in rooms}
room_config_dict(rooms) ==
    [name \in { rooms[i].room_name : i \in DOMAIN rooms } |->
       rooms[CHOOSE i \in DOMAIN rooms : rooms[i].room_name = name]]

\* the items of the dict assign_rooms_to_groups returns, one per room that
\* holds examinees.  Each room is seated on its own grid and the seating is
\* a dict keyed by room, so the order of the items does not show in it; the
\* items are taken here in the order of the room list.
ItemsInOrder(rooms, assigned) ==
    LET names == FilterSeq([i \in DOMAIN rooms |-> rooms[i].room_name],
                           DOMAIN assigned)
    IN [k \in DOMAIN names |->
          [room |-> names[k], students |-> assigned[names[k]]]]

PipelineRosters ==
    UNION { { [i \in 1..n |->
                 [StudentID |-> i,
                  ExamDate |-> sl[i].ExamDate,
                  ExamTime |-> sl[i].ExamTime,
                  Batch |-> PipelineColumns[2 - (i % 2)].Batch,
                  Year |-> PipelineColumns[2 - (i % 2)].Year,
                  Department |-> PipelineColumns[2 - (i % 2)].Department,
                  Subject |-> PipelineColumns[2 - (i % 2)].Subject]] :
                sl \in [1..n -> PipelineSlots] } :
            n \in 0..MaxExaminees }

\* the state in which a run starts: the inputs, and nothing computed
FreshRun ==
    /\ graph = EmptyGraph
    /\ colors = << >>
    /\ color_order = << >>
    /\ color_groups = << >>
    /\ cpc = "build"
    /\ groups = << >>
    /\ student_metadata = << >>
    /\ sorted_groups = << >>
    /\ group_idx = 0
    /\ room_status = << >>
    /\ assignments = << >>
    /\ room_assignments = << >>
    /\ stack = << >>
    /\ result = [kind |-> "pending"]
    /\ apc = "idle"
    /\ SeatsIdle

InitPipeline ==
    /\ earlier_run = NoRun
    /\ df \in PipelineRosters
    /\ friend_pairs \in SUBSET { p \in (1..Len(df)) \X (1..Len(df)) :
                                   p[1] < p[2] }
    /\ enable_friend_separation = TRUE
    /\ enable_section_separation \in BOOLEAN
    /\ \E l \in DOMAIN PipelineRooms : rooms_config = PipelineRooms[l]
    /\ FreshRun

\* the colour groups and the metadata go to assign_rooms_to_groups
StartRooms ==
    /\ cpc = "done"
    /\ apc = "idle"
    /\ groups' = [k \in DOMAIN color_groups |-> color_groups[k].members]
    /\ student_metadata' = extract_student_metadata(df)
    /\ apc' = "start"
    /\ UNCHANGED <<rooms_config, sorted_groups, group_idx, room_status,
                   assignments, room_assignments, stack, result>>
    /\ UNCHANGED cvars
    /\ UNCHANGED svars
    /\ UNCHANGED pvars

\* the room assignments, the metadata and the rooms by name go to
\* assign_seats_in_room
StartSeats ==
    /\ apc = "done"
    /\ result.kind = "ok"
    /\ spc = "idle"
    /\ room_assignment' = ItemsInOrder(rooms_config, result.rooms)
    /\ metadata' = student_metadata
    /\ room_config' = room_config_dict(rooms_config)
    /\ friend_graph' = friends_map(friend_pairs)
    /\ spc' = "start"
    /\ UNCHANGED <<room_idx, queue, assigned_positions, seats,
                   adjacency_violations, seating, returned>>
    /\ UNCHANGED cvars
    /\ UNCHANGED avars
    /\ UNCHANGED pvars

\* the run is over: the seating was returned or the allocator raised
RunOver ==
    \/ spc = "done"
    \/ apc = "done" /\ result.kind = "error"

\* what the run produced
Outputs ==
    [color_groups |-> color_groups, result |-> result, returned |-> returned]

\* the stages are called again on the same inputs; no stage keeps anything
\* between two calls
RunAgain ==
    /\ RunOver
    /\ earlier_run = NoRun
    /\ earlier_run' = [kind |-> "outputs", outputs |-> Outputs]
    /\ graph' = EmptyGraph
    /\ colors' = << >>
    /\ color_order' = << >>
    /\ color_groups' = << >>
    /\ cpc' = "build"
    /\ groups' = << >>
    /\ student_metadata' = << >>
    /\ sorted_groups' = << >>
    /\ group_idx' = 0
    /\ room_status' = << >>
    /\ assignments' = << >>
    /\ room_assignments' = << >>
    /\ stack' = << >>
    /\ result' = [kind |-> "pending"]
    /\ apc' = "idle"
    /\ room_assignment' = << >>
    /\ metadata' = << >>
    /\ room_config' = << >>
    /\ friend_graph' = << >>
    /\ room_idx' = 0
    /\ queue' = << >>
    /\ assigned_positions' = << >>
    /\ seats' = << >>
    /\ adjacency_violations' = << >>
    /\ seating' = << >>
    /\ returned' = [kind |-> "pending"]
    /\ spc' = "idle"
    /\ UNCHANGED <<df, friend_pairs, enable_friend_separation,
                   enable_section_separation, rooms_config>>

NextPipeline ==
    \/ NextColor
    \/ StartRooms
    \/ NextRooms
    \/ StartSeats
    \/ NextSeats
    \/ RunAgain

SpecPipeline == InitPipeline /\ [][NextPipeline]_vars

-----------------------------------------------------------------------------
(* Claims about the Group Colorer                                          *)

RowOf(id) == df[CHOOSE i \in DOMAIN df : df[i].StudentID = id]

HardConflict(a, b) == a # b /\ SameSlot(RowOf(a), RowOf(b))

IsComplete(g) ==
    \A a, b \in NodeSet(g) : a # b => {a, b} \in g.edges

ColoringReturned == cpc \in {"groups", "done"}

\* C1: two examinees of the roster with identical (ExamDate, ExamTime)
\* never hold the same colour, neither while dsatur_coloring runs nor in
\* the mapping it returns, and no colour group returned by
\* get_colored_groups contains two such examinees.
C1_HardConflictsSeparated ==
    /\ \A a, b \in DOMAIN colors :
          HardConflict(a, b) => colors[a] # colors[b]
    /\ cpc = "done" =>
          \A k \in DOMAIN color_groups :
            \A a, b \in Range(color_groups[k].members) : ~ HardConflict(a, b)

\* a finished run with a hard conflict and with a group of two examinees
C1_Witness ==
    /\ cpc = "done"
    /\ \E a, b \in StudentIDs(df) : HardConflict(a, b)
    /\ \E k \in DOMAIN color_groups : Len(color_groups[k].members) >= 2

\* C2: dsatur_coloring returns the empty mapping for the empty graph, one
\* colour for a single node, and exactly k distinct colours for a complete
\* graph of k nodes.
C2_EmptySingleComplete ==
    ColoringReturned =>
      /\ Len(graph.nodes) = 0 => colors = << >>
      /\ Len(graph.nodes) = 1 =>
            DOMAIN colors = NodeSet(graph) /\ Cardinality(Range(colors)) = 1
      /\ IsComplete(graph) =>
            /\ DOMAIN colors = NodeSet(graph)
            /\ Cardinality(Range(colors)) = Len(graph.nodes)

\* a returned colouring of a complete graph of at least three nodes
C2_Witness ==
    /\ ColoringReturned
    /\ IsComplete(graph)
    /\ Len(graph.nodes) >= 3
    /\ Cardinality(Range(colors)) >= 3

-----------------------------------------------------------------------------
(* Claims about the Room Allocator                                         *)

Returned == apc = "done" /\ result.kind = "ok"

\* the backtracking pass has run (first_fit_decreasing returned None)
UsedBacktracking == DOMAIN room_assignments # {}

InputIds == UNION { Range(groups[k]) : k \in DOMAIN groups }

\* places (room, position) of the returned layout that hold the identifier
Places(id) ==
    { p \in UNION { {rid} \X DOMAIN result.rooms[rid] :
                      rid \in DOMAIN result.rooms } :
        result.rooms[p[1]][p[2]] = id }

RoomOf(rid) ==
    room_objects[CHOOSE i \in DOMAIN room_objects :
                   room_objects[i].room_id = rid]

\* the examinees a returned room lists, as Student objects
Listed(rid) ==
    [i \in DOMAIN result.rooms[rid] |->
        Student(result.rooms[rid][i], student_metadata[result.rooms[rid][i]])]

\* C3: a returned layout lists every examinee of the input groups exactly
\* once, in exactly one room, and lists nobody else.
C3_EveryExamineeExactlyOnce ==
    Returned =>
      /\ \A id \in InputIds : Cardinality(Places(id)) = 1
      /\ \A rid \in DOMAIN result.rooms :
           Range(result.rooms[rid]) \subseteq InputIds

\* a layout returned by the backtracking pass after an undo: the first
\* group sits in the second room although the empty first room takes it
C3_Witness ==
    /\ Returned
    /\ UsedBacktracking
    /\ Cardinality(DOMAIN result.rooms) = 2
    /\ Cardinality(InputIds) >= 3
    /\ can_place(room_objects[1], InitialStatus(room_objects[1]),
                 sorted_groups[1])
    /\ sorted_groups[1][1].id \in Range(result.rooms[room_objects[2].room_id])

\* the list the running pass keeps for a room
CurrentList(rid) ==
    IF UsedBacktracking THEN room_assignments[rid] ELSE assignments[rid]

\* C4: no returned room lists more examinees than its capacity, and while
\* FFD and backtracking run remaining_capacity is never negative and equals
\* capacity minus the number of examinees assigned to the room.
C4_CapacityRespected ==
    /\ Returned =>
         \A rid \in DOMAIN result.rooms :
           Len(result.rooms[rid]) <= RoomOf(rid).capacity
    /\ \A rid \in DOMAIN room_status :
         /\ room_status[rid].remaining_capacity >= 0
         /\ room_status[rid].remaining_capacity
              = RoomOf(rid).capacity - Len(CurrentList(rid))

\* the backtracking pass after an undo: the first group fills the second
\* room, and the first room, which takes that group, is empty again
C4_Witness ==
    /\ apc = "dfs"
    /\ Len(stack) = 2
    /\ stack[1].room = 2
    /\ room_status[room_objects[2].room_id].remaining_capacity = 0
    /\ Len(room_assignments[room_objects[2].room_id]) = 2
    /\ room_assignments[room_objects[1].room_id] = << >>
    /\ can_place(room_objects[1], room_status[room_objects[1].room_id],
                 sorted_groups[1])

DistinctYears(rid)       == Cardinality(group_years(Listed(rid)))
DistinctSubjects(rid)    == Cardinality(group_subjects(Listed(rid)))
DistinctBranches(rid)    == Cardinality(group_branches(Listed(rid)))
DistinctDepartments(rid) == Cardinality(group_departments(Listed(rid)))

\* C5 as stated: in a returned layout the distinct subjects, branches,
\* departments and years of every room are at most max_subjects,
\* max_branches, max_departments and max_years, whatever the configuration.
C5_CeilingsAsStated ==
    Returned =>
      \A rid \in DOMAIN result.rooms :
        /\ DistinctSubjects(rid) <= RoomOf(rid).max_subjects
        /\ DistinctBranches(rid) <= RoomOf(rid).max_branches
        /\ DistinctDepartments(rid) <= RoomOf(rid).max_departments
        /\ DistinctYears(rid) <= RoomOf(rid).max_years

\* C5 amended: in a returned layout every ceiling of a room that is greater
\* than 0 bounds the number of distinct values of its dimension among the
\* examinees listed for the room (a ceiling of 0 bounds nothing).
C5_PositiveCeilingsRespected ==
    Returned =>
      \A rid \in DOMAIN result.rooms :
        /\ RoomOf(rid).max_subjects > 0 =>
             DistinctSubjects(rid) <= RoomOf(rid).max_subjects
        /\ RoomOf(rid).max_branches > 0 =>
             DistinctBranches(rid) <= RoomOf(rid).max_branches
        /\ RoomOf(rid).max_departments > 0 =>
             DistinctDepartments(rid) <= RoomOf(rid).max_departments
        /\ RoomOf(rid).max_years > 0 =>
             DistinctYears(rid) <= RoomOf(rid).max_years

\* a returned room that holds two groups and meets its max_years exactly
C5_Witness ==
    /\ Returned
    /\ \E rid \in DOMAIN result.rooms :
         /\ Len(result.rooms[rid]) = 3
         /\ RoomOf(rid).max_years = 2
         /\ DistinctYears(rid) = 2
         /\ RoomOf(rid).max_subjects = 1
         /\ DistinctSubjects(rid) = 1

NothingPlaced ==
    /\ group_idx = 0
    /\ assignments = << >>
    /\ room_assignments = << >>
    /\ stack = << >>

Examinees == Cardinality(InputIds)

Seats == SumSeq([i \in DOMAIN rooms_config |-> rooms_config[i].capacity])

OverCapacity == Examinees > Seats

\* the numbers the over-capacity message carries
ReportedNumbers(error) == { error.Need, error.have }

Content(f, r, members) ==
    { members[k][i] :
        <<k, i>> \in { p \in UNION { {k} \X DOMAIN members[k] :
                                       k \in DOMAIN members } :
                         f[p[1]] = r } }

Limited(ceiling, values) == ceiling > 0 => Cardinality(values) <= ceiling

ValidMapping(f, rooms, members) ==
    \A r \in DOMAIN rooms :
      \E c \in { Content(f, r, members) } :
         /\ Cardinality(c) <= rooms[r].capacity
         /\ { s.year : s \in c } \subseteq rooms[r].allowed_years
         /\ Limited(rooms[r].max_years, { s.year : s \in c })
         /\ Limited(rooms[r].max_departments, { s.department : s \in c })
         /\ Limited(rooms[r].max_subjects, { s.subject : s \in c })
         /\ Limited(rooms[r].max_branches, { s.branch : s \in c })

Mappings == [DOMAIN groups -> DOMAIN rooms_config]

Feasible ==
    \E rooms \in { room_objects } : \E members \in { student_groups } :
      \E f \in Mappings : ValidMapping(f, rooms, members)

\* the returned layout is the layout of the mapping f
LayoutOf(f, rooms, members) ==
    \A r \in DOMAIN rooms :
      { s.id : s \in Content(f, r, members) }
        = (IF rooms[r].room_id \in DOMAIN result.rooms
           THEN Range(result.rooms[rooms[r].room_id]) ELSE {})

\* the returned layout is the layout of a valid mapping of every group
ValidLayout ==
    \E rooms \in { room_objects } : \E members \in { student_groups } :
      \E f \in Mappings :
        ValidMapping(f, rooms, members) /\ LayoutOf(f, rooms, members)

\* C7: when the seats suffice but no mapping of every group to a room is
\* valid, the run ends with the infeasibility error and returns nothing;
\* whatever is returned is the layout of a valid mapping of every group.
C7_InfeasibleRaises ==
    apc = "done" =>
      /\ (~ OverCapacity /\ ~ Feasible) =>
           /\ result.kind = "error"
           /\ result.error = InfeasibleError
      /\ result.kind = "ok" => ValidLayout

\* the infeasibility error after the search undid at least one choice:
\* two rooms, two groups, seats enough
C7_Witness ==
    /\ apc = "done"
    /\ result.kind = "error"
    /\ result.error = InfeasibleError
    /\ Len(groups) = 2
    /\ Len(rooms_config) = 2
    /\ \E r \in DOMAIN room_objects :
         can_place(room_objects[r], room_status[room_objects[r].room_id],
                   sorted_groups[1])

\* C8: when the seats suffice and some mapping of every whole group to a
\* room is valid, assign_rooms_to_groups returns an assignment.
C8_Complete ==
    (apc = "done" /\ ~ OverCapacity /\ Feasible) => result.kind = "ok"

\* an assignment that only the backtracking pass found
C8_Witness ==
    /\ Returned
    /\ UsedBacktracking
    /\ Feasible
    /\ Len(groups) = 2

\* C9: in a returned layout all members of one colour group are listed in
\* the same room.
C9_GroupsNotSplit ==
    Returned =>
      \A k \in DOMAIN groups :
        groups[k] # << >> =>
          \E rid \in DOMAIN result.rooms :
            Range(groups[k]) \subseteq Range(result.rooms[rid])

\* two groups of two examinees returned in two different rooms
C9_Witness ==
    /\ Returned
    /\ Len(groups) = 2
    /\ \A k \in DOMAIN groups : Len(groups[k]) = 2
    /\ Cardinality(DOMAIN result.rooms) = 2

-----------------------------------------------------------------------------
(* Claims about the Seat Placer                                            *)

SeatedIds(room) == [k \in DOMAIN seating[room] |-> seating[room][k].student_id]

Occurrences(list, id) == Cardinality({ k \in DOMAIN list : list[k] = id })

\* C10: for every room with a non-empty examinee list, the returned seat
\* list holds every examinee of the list exactly once and nobody else.
C10_EveryExamineeSeatedOnce ==
    spc = "done" =>
      \A r \in DOMAIN room_assignment :
        LET room     == room_assignment[r].room
            students == room_assignment[r].students
        IN students # << >> =>
             /\ room \in DOMAIN seating
             /\ \A id \in Range(students) :
                  Occurrences(SeatedIds(room), id) = 1
             /\ Range(SeatedIds(room)) \subseteq Range(students)

\* the room of room_assignment named room
EntryOf(room) ==
    room_assignment[CHOOSE r \in DOMAIN room_assignment :
                      room_assignment[r].room = room]

\* the grid the placer uses for the room
GridColumns(room) == ColumnsOf(room_config, room)
GridRows(room) == RowsOf(room_config, room)

\* C11: within one room's returned seat list no two seat assignments share
\* (x, y), no two share the seat number, and every assignment lies inside
\* the room's configured grid: 0 <= x < columns and 0 <= y < rows.
C11_SeatsDistinctInGrid ==
    \A room \in DOMAIN seating :
      LET list == seating[room]
      IN /\ \A i \in DOMAIN list : \A j \in DOMAIN list :
              i # j => /\ <<list[i].x, list[i].y>> # <<list[j].x, list[j].y>>
                       /\ list[i].seat_no # list[j].seat_no
         /\ \A i \in DOMAIN list :
              /\ 0 <= list[i].x /\ list[i].x < GridColumns(room)
              /\ 0 <= list[i].y /\ list[i].y < GridRows(room)

\* a returned seating of the relationship-aware mode in which a room of
\* three or more examinees was seated and a fallback placement happened
C11_Witness ==
    /\ spc = "done"
    /\ WithSeparation
    /\ adjacency_violations # << >>
    /\ \E room \in DOMAIN seating : Len(seating[room]) >= 3

\* C18: in every seat assignment of either placement mode the seat number
\* is y * columns + x + 1, whatever the order the cells were filled in.
C18_SeatNumberRowMajor ==
    \A room \in DOMAIN seating :
      \A i \in DOMAIN seating[room] :
        seating[room][i].seat_no
          = seating[room][i].y * GridColumns(room) + seating[room][i].x + 1

\* a returned seating of the spread mode whose checkerboard reached the
\* second row: the third examinee sits at (1, 1), seat 5 of a 3 x 2 grid
C18_Witness ==
    /\ spc = "done"
    /\ ~ WithSeparation
    /\ \E room \in DOMAIN seating :
         /\ GridColumns(room) = 3
         /\ Len(seating[room]) = 3
         /\ seating[room][3].x = 1 /\ seating[room][3].y = 1
         /\ seating[room][3].seat_no = 5

\* two examinees are related in the relationship map
Related(a, b) ==
    \/ a \in DOMAIN friend_graph /\ b \in friend_graph[a]
    \/ b \in DOMAIN friend_graph /\ a \in friend_graph[b]

Abs(n) == IF n < 0 THEN -n ELSE n

\* two different cells that touch, orthogonally or diagonally
Touching(c, d) == c # d /\ Abs(c[1] - d[1]) <= 1 /\ Abs(c[2] - d[2]) <= 1

Occupancy(room) == Len(EntryOf(room).students)

\* C12: with a non-empty symmetric relationship map, in every room whose
\* occupancy n satisfies (columns * rows) div n >= 2 no two related
\* examinees sit in each other's 8-neighbourhood.
C12_RelatedNeverAdjacent ==
    (spc = "done" /\ WithSeparation) =>
      \A room \in DOMAIN seating :
        (GridColumns(room) * GridRows(room)) \div Occupancy(room) >= 2 =>
          \A i \in DOMAIN seating[room] : \A j \in DOMAIN seating[room] :
            Related(seating[room][i].student_id, seating[room][j].student_id)
              => ~ Touching(<<seating[room][i].x, seating[room][i].y>>,
                            <<seating[room][j].x, seating[room][j].y>>)

\* the room being seated holds as many examinees as its grid has cells
Saturated(room) == Occupancy(room) = GridColumns(room) * GridRows(room)

\* the cells of the room's grid nobody sits in yet
FreeCells(room) ==
    ((0..(GridColumns(room) - 1)) \X (0..(GridRows(room) - 1)))
      \ DOMAIN assigned_positions

\* an occupied cell touching c holds an examinee related to id
RelatedNeighbour(c, id) ==
    \E d \in DOMAIN assigned_positions :
      Touching(c, d) /\ Related(id, assigned_positions[d])

\* the step records an adjacency violation
RecordsViolation == Len(adjacency_violations') > Len(adjacency_violations)

\* C13: in a room whose occupancy equals columns * rows the relationship-
\* aware placement seats every examinee, and it records an adjacency
\* violation for an examinee only if, when that examinee was placed, every
\* unoccupied cell had a related examinee in its occupied 8-neighbourhood.
C13_SaturatedRoomViolationsUnavoidable ==
    /\ [](spc = "done" /\ WithSeparation =>
            \A room \in DOMAIN seating :
              Saturated(room) =>
                \A id \in Range(EntryOf(room).students) :
                  Occurrences(SeatedIds(room), id) = 1)
    /\ [][(spc = "place" /\ Saturated(CurrentRoom.room) /\ RecordsViolation)
            => /\ adjacency_violations'[Len(adjacency_violations')].student_id
                    = Head(queue)
               /\ \A c \in FreeCells(CurrentRoom.room) :
                    RelatedNeighbour(c, Head(queue))]_vars

\* a saturated 2 x 2 room of four examinees has been seated and a violation
\* was recorded for one of them
C13_Witness ==
    /\ spc = "done"
    /\ \E room \in DOMAIN seating :
         /\ Saturated(room)
         /\ Len(seating[room]) = 4
         /\ \E k \in DOMAIN adjacency_violations :
              adjacency_violations[k].room = room

\* the adjacency-violation records the caller receives
ReturnedViolations ==
    IF "adjacency_violations" \in DOMAIN returned
    THEN Range(returned.adjacency_violations)
    ELSE {}

\* C14: whenever the relationship-aware placement seats an examinee through
\* the fallback, the call does not fail and a violation record (room,
\* examinee, position) is part of what assign_seats_in_room returns,
\* alongside the complete seating.
C14_ViolationsReturned ==
    spc = "done" =>
      /\ returned.kind = "ok"
      /\ returned.seating = seating
      /\ \A k \in DOMAIN adjacency_violations :
           adjacency_violations[k] \in ReturnedViolations

-----------------------------------------------------------------------------
(* Claims about graph construction and DSatur                              *)

\* the graph was built by build_enhanced_conflict_graph
EnhancedGraphBuilt ==
    cpc # "build" /\ (enable_friend_separation \/ enable_section_separation)

\* the relationship pairs handed to build_enhanced_conflict_graph
PassedPairs == IF enable_friend_separation THEN friend_pairs ELSE {}

RelationshipPair(a, b) ==
    /\ <<a, b>> \in PassedPairs \/ <<b, a>> \in PassedPairs
    /\ a \in StudentIDs(df) /\ b \in StudentIDs(df)

SameSection(a, b) ==
    /\ RowOf(a).Batch = RowOf(b).Batch
    /\ RowOf(a).Year = RowOf(b).Year
    /\ RowOf(a).Department = RowOf(b).Department

\* the weight the pair is to get; 0 stands for "no edge"
StatedWeight(a, b) ==
    IF HardConflict(a, b) \/ RelationshipPair(a, b)
    THEN (IF HardConflict(a, b) THEN 10 ELSE 0)
           + (IF RelationshipPair(a, b) THEN 5 ELSE 0)
    ELSE IF enable_section_separation /\ SameSection(a, b) THEN 2
    ELSE 0

\* C19: build_enhanced_conflict_graph makes every roster identifier a node
\* and gives each pair of examinees the weight 10 for a shared (date, time)
\* plus 5 for a relationship pair with both endpoints in the roster, else 2
\* for a shared (batch, year, department) when section separation is
\* enabled, and no edge otherwise.
C19_EdgeWeights ==
    EnhancedGraphBuilt =>
      /\ NodeSet(graph) = StudentIDs(df)
      /\ \A e \in graph.edges : e \subseteq StudentIDs(df)
      /\ \A a \in StudentIDs(df) : \A b \in StudentIDs(df) \ {a} :
           IF StatedWeight(a, b) = 0
           THEN {a, b} \notin graph.edges
           ELSE /\ {a, b} \in graph.edges
                /\ graph.weight[{a, b}] = StatedWeight(a, b)

\* a graph of three examinees with one edge of weight 15, one of weight 5
\* and one of weight 2
C19_Witness ==
    /\ EnhancedGraphBuilt
    /\ Cardinality(graph.edges) = 3
    /\ { graph.weight[e] : e \in graph.edges } = {15, 5, 2}

\* degree and saturation of a node, counted on the edge set
Deg(v) == Cardinality({ e \in graph.edges : v \in e })

ColouredNeighbours(v) == { u \in DOMAIN colors : {u, v} \in graph.edges }

NeighbourColours(v) == { colors[u] : u \in ColouredNeighbours(v) }

Sat(v) == Cardinality(NeighbourColours(v))

\* the node a step of dsatur_coloring colours
Coloured == CHOOSE v \in DOMAIN colors' : v \notin DOMAIN colors

\* C20: dsatur_coloring first colours a node of maximum degree with colour
\* 0; every later step colours an uncoloured node of maximal saturation
\* among the uncoloured nodes, the highest degree deciding ties, and gives
\* it the smallest colour 0, 1, 2, ... that no coloured neighbour holds.
C20_DsaturSelection ==
    [][DOMAIN colors' # DOMAIN colors =>
         IF colors = << >>
         THEN /\ \A u \in NodeSet(graph) : Deg(u) <= Deg(Coloured)
              /\ colors'[Coloured] = 0
         ELSE /\ Coloured \in NodeSet(graph)
              /\ \A u \in NodeSet(graph) \ DOMAIN colors :
                   \/ Sat(u) < Sat(Coloured)
                   \/ Sat(u) = Sat(Coloured) /\ Deg(u) <= Deg(Coloured)
              /\ colors'[Coloured] \notin NeighbourColours(Coloured)
              /\ \A c \in 0..(colors'[Coloured] - 1) :
                   c \in NeighbourColours(Coloured)]_vars

\* the colours held before the node coloured last got its colour
LastColoured == color_order[Len(color_order)]

SatBefore(v) ==
    Cardinality({ colors[u] : u \in ColouredNeighbours(v) \ {LastColoured} })

\* the node coloured last took a colour above 0 and was chosen for its
\* degree: an earlier node of the list was uncoloured with the same
\* saturation and a lower degree
C20_Witness ==
    /\ cpc = "loop"
    /\ Len(color_order) >= 2
    /\ colors[LastColoured] > 0
    /\ \E u \in NodeSet(graph) \ DOMAIN colors :
         /\ u < LastColoured
         /\ SatBefore(u) = SatBefore(LastColoured)
         /\ Deg(u) < Deg(LastColoured)

\* how often the identifier occurs in the returned colour groups
TimesGrouped(id) ==
    Cardinality({ <<k, j>> \in (DOMAIN color_groups) \X (1..Len(df)) :
                    /\ j \in DOMAIN color_groups[k].members
                    /\ color_groups[k].members[j] = id })

\* C17: dsatur_coloring always returns: every iteration of its loop colours
\* exactly one node that had no colour and leaves the colours given before
\* untouched, on return every node of the graph holds a colour, and the
\* colour groups of get_colored_groups partition the roster's identifiers.
C17_ColoringTerminatesAndPartitions ==
    /\ [][(cpc = "loop" /\ cpc' = "loop") =>
            /\ \E v \in NodeSet(graph) \ DOMAIN colors :
                 DOMAIN colors' = DOMAIN colors \cup {v}
            /\ \A u \in DOMAIN colors : colors'[u] = colors[u]]_vars
    /\ [](ColoringReturned => DOMAIN colors = NodeSet(graph))
    /\ [](cpc = "done" =>
            /\ \A id \in StudentIDs(df) : TimesGrouped(id) = 1
            /\ \A k \in DOMAIN color_groups :
                 /\ color_groups[k].members # << >>
                 /\ Range(color_groups[k].members) \subseteq StudentIDs(df))
    /\ <>(cpc = "done")

\* the groups of a graph of four nodes that needed three colours
C17_Witness ==
    /\ cpc = "done"
    /\ Len(df) = 4
    /\ Len(color_groups) = 3
    /\ Len(color_groups[1].members) = 2

\* the roster has twelve examinees, six in each of two exam slots, and no
\* relationship pair is given
TwelveOverTwoSlots ==
    /\ Len(df) = 12
    /\ \E a \in StudentIDs(df) :
         /\ Cardinality({ b \in StudentIDs(df) :
                            SameSlot(RowOf(a), RowOf(b)) }) = 6
         /\ \A b \in StudentIDs(df) : \A c \in StudentIDs(df) :
              (~ SameSlot(RowOf(a), RowOf(b)) /\ ~ SameSlot(RowOf(a), RowOf(c)))
                => SameSlot(RowOf(b), RowOf(c))
    /\ PassedPairs = {}

\* C16 as stated: for twelve examinees over two exam slots, six per slot,
\* with no relationships, get_colored_groups yields exactly 2 colour groups
\* of 6 examinees each.
C16_TwoGroupsOfSix ==
    (cpc = "done" /\ TwelveOverTwoSlots) =>
      /\ Len(color_groups) = 2
      /\ \A k \in DOMAIN color_groups : Len(color_groups[k].members) = 6

\* section separation adds no edge between examinees of different slots
NoSectionEdgeAcrossSlots ==
    enable_section_separation =>
      \A a \in StudentIDs(df) : \A b \in StudentIDs(df) :
        SameSection(a, b) => SameSlot(RowOf(a), RowOf(b))

\* C16, amended: for twelve examinees over two exam slots, six per slot,
\* with no relationships and no section edge between the slots,
\* get_colored_groups yields exactly 6 colour groups of 2 examinees each,
\* one examinee of each slot.
C16_SixGroupsOfTwo ==
    (cpc = "done" /\ TwelveOverTwoSlots /\ NoSectionEdgeAcrossSlots) =>
      /\ Len(color_groups) = 6
      /\ \A k \in DOMAIN color_groups :
           /\ Len(color_groups[k].members) = 2
           /\ ~ SameSlot(RowOf(color_groups[k].members[1]),
                         RowOf(color_groups[k].members[2]))

\* the groups of the scenario with section separation enabled and the rows
\* of the two slots interleaved in the roster
C16_Witness ==
    /\ cpc = "done"
    /\ TwelveOverTwoSlots
    /\ enable_section_separation
    /\ NoSectionEdgeAcrossSlots
    /\ ~ SameSlot(df[1], df[2])
    /\ Len(color_groups) = 6

-----------------------------------------------------------------------------
(* Claims about the three stages together                                  *)

-----------------------------------------------------------------------------
(* Claims about the two passes of the Room Allocator                       *)

\* the examinees the running pass lists for a room, as Student objects
Held(rid) ==
    [i \in DOMAIN CurrentList(rid) |->
        Student(CurrentList(rid)[i], student_metadata[CurrentList(rid)[i]])]

\* seats of the room that the examinees listed for it leave free
SeatsLeft(rid) == RoomOf(rid).capacity - Len(CurrentList(rid))

\* the stated conditions, read on the examinees listed for the room; a
\* ceiling bounds the union whatever its value
AcceptsAsStated(rid, group) ==
    /\ SeatsLeft(rid) >= Len(group)
    /\ \A i \in DOMAIN group : group[i].year \in RoomOf(rid).allowed_years
    /\ Cardinality(group_years(Held(rid)) \cup group_years(group))
         <= RoomOf(rid).max_years
    /\ Cardinality(group_departments(Held(rid)) \cup group_departments(group))
         <= RoomOf(rid).max_departments
    /\ Cardinality(group_subjects(Held(rid)) \cup group_subjects(group))
         <= RoomOf(rid).max_subjects
    /\ Cardinality(group_branches(Held(rid)) \cup group_branches(group))
         <= RoomOf(rid).max_branches

\* the same conditions, a ceiling of 0 bounding nothing
AcceptsUnderPositiveCeilings(rid, group) ==
    /\ SeatsLeft(rid) >= Len(group)
    /\ \A i \in DOMAIN group : group[i].year \in RoomOf(rid).allowed_years
    /\ RoomOf(rid).max_years > 0 =>
         Cardinality(group_years(Held(rid)) \cup group_years(group))
           <= RoomOf(rid).max_years
    /\ RoomOf(rid).max_departments > 0 =>
         Cardinality(group_departments(Held(rid))
                     \cup group_departments(group))
           <= RoomOf(rid).max_departments
    /\ RoomOf(rid).max_subjects > 0 =>
         Cardinality(group_subjects(Held(rid)) \cup group_subjects(group))
           <= RoomOf(rid).max_subjects
    /\ RoomOf(rid).max_branches > 0 =>
         Cardinality(group_branches(Held(rid)) \cup group_branches(group))
           <= RoomOf(rid).max_branches

\* a pass is running
PassRunning == apc \in {"ffd", "dfs"}

\* C22 as stated: in both passes a room accepts a group exactly when the
\* capacity left is at least the group size, every member's year is allowed
\* and the unions of the room's and the group's years, departments, subjects
\* and branches stay within the four ceilings; FFD accepts exactly when
\* can_place returns true.
C22_AcceptanceAsStated ==
    PassRunning =>
      \A rid \in RoomIds : \A k \in DOMAIN sorted_groups :
        /\ FfdAccepts(RoomOf(rid), room_status[rid], sorted_groups[k])
             <=> can_place(RoomOf(rid), room_status[rid], sorted_groups[k])
        /\ can_place(RoomOf(rid), room_status[rid], sorted_groups[k])
             <=> AcceptsAsStated(rid, sorted_groups[k])

\* C22 amended: the same, each ceiling applying only when it is greater
\* than 0.
C22_AcceptancePositiveCeilings ==
    PassRunning =>
      \A rid \in RoomIds : \A k \in DOMAIN sorted_groups :
        /\ FfdAccepts(RoomOf(rid), room_status[rid], sorted_groups[k])
             <=> can_place(RoomOf(rid), room_status[rid], sorted_groups[k])
        /\ can_place(RoomOf(rid), room_status[rid], sorted_groups[k])
             <=> AcceptsUnderPositiveCeilings(rid, sorted_groups[k])

\* the first-fit pass at its second group: a room that holds the first
\* group refuses the second one, which fits, because the union of subjects
\* passes max_subjects, and another room takes it
C22_Witness ==
    /\ apc = "ffd"
    /\ group_idx = 1
    /\ Len(sorted_groups) = 2
    /\ \E rid \in RoomIds :
         /\ assignments[rid] # << >>
         /\ SeatsLeft(rid) >= Len(sorted_groups[2])
         /\ RoomOf(rid).max_subjects = 1
         /\ Cardinality(group_subjects(sorted_groups[2])) = 1
         /\ ~ can_place(RoomOf(rid), room_status[rid], sorted_groups[2])
    /\ \E rid \in RoomIds :
         FfdAccepts(RoomOf(rid), room_status[rid], sorted_groups[2])

\* position of the room in the room list
RoomIndex(rid) ==
    CHOOSE i \in DOMAIN room_objects : room_objects[i].room_id = rid

\* the first-fit pass has a group to place
FfdAtGroup == apc = "ffd" /\ group_idx < Len(sorted_groups)

NextGroup == sorted_groups[group_idx + 1]

\* rooms examined before the room: more seats left, or as many and earlier
\* in the room list
ExaminedBefore(rid) ==
    { q \in RoomIds :
        \/ SeatsLeft(q) > SeatsLeft(rid)
        \/ SeatsLeft(q) = SeatsLeft(rid) /\ RoomIndex(q) < RoomIndex(rid) }

\* sorted_groups holds the colour groups, each as often as the input does,
\* larger groups first
GroupsInDescendingSize ==
    /\ Len(sorted_groups) = Len(student_groups)
    /\ \A k \in DOMAIN student_groups :
         Cardinality({ j \in DOMAIN sorted_groups :
                         sorted_groups[j] = student_groups[k] })
           = Cardinality({ j \in DOMAIN student_groups :
                             student_groups[j] = student_groups[k] })
    /\ \A k \in 1..(Len(sorted_groups) - 1) :
         Len(sorted_groups[k]) >= Len(sorted_groups[k + 1])

\* C21: first_fit_decreasing takes the groups in descending size; each
\* group goes whole to the first room, in descending order of remaining
\* capacity, that accepts it; when no room accepts a group the pass fails at
\* once, nothing is returned, and the fallback starts from empty rooms.
C21_FirstFitDecreasing ==
    [][ FfdAtGroup =>
          /\ GroupsInDescendingSize
          /\ IF \E rid \in RoomIds :
                  AcceptsUnderPositiveCeilings(rid, NextGroup)
             THEN \E rid \in RoomIds :
                    /\ AcceptsUnderPositiveCeilings(rid, NextGroup)
                    /\ \A q \in ExaminedBefore(rid) :
                         ~ AcceptsUnderPositiveCeilings(q, NextGroup)
                    /\ assignments' =
                         [assignments EXCEPT
                            ![rid] = @ \o GroupIds(NextGroup)]
                    /\ group_idx' = group_idx + 1
                    /\ apc' = "ffd"
             ELSE /\ apc' = "dfs"
                  /\ result' = result
                  /\ \A rid \in RoomIds :
                       /\ room_assignments'[rid] = << >>
                       /\ room_status'[rid] = InitialStatus(RoomOf(rid))
      ]_vars

\* the fallback starts: first-fit placed the first group in the second room,
\* which has more seats than the first one, found no room for the second
\* group, and no room of the fallback lists anybody
C21_Witness ==
    /\ apc = "dfs"
    /\ stack = << [index |-> 0, room |-> 0] >>
    /\ Len(room_objects) = 2
    /\ room_objects[2].capacity > room_objects[1].capacity
    /\ assignments[room_objects[2].room_id] = GroupIds(sorted_groups[1])
    /\ assignments[room_objects[1].room_id] = << >>
    /\ \A rid \in RoomIds : room_assignments[rid] = << >>
    /\ Len(sorted_groups[1]) > Len(sorted_groups[2])

\* the calls of dfs that wait for the call below them: their choices hold
ChoicesInForce == Len(stack) - 1

\* the identifiers the first n choices give to the room, in order
RECURSIVE IdsChosen(_, _)
IdsChosen(rid, n) ==
    IF n = 0 THEN << >>
    ELSE IdsChosen(rid, n - 1)
           \o (IF room_objects[stack[n].room].room_id = rid
               THEN GroupIds(sorted_groups[stack[n].index + 1])
               ELSE << >>)

\* the room state that the examinees listed for the room give
StatusOfContent(rid) ==
    [remaining_capacity |-> SeatsLeft(rid),
     subjects    |-> group_subjects(Held(rid)),
     branches    |-> group_branches(Held(rid)),
     years       |-> group_years(Held(rid)),
     departments |-> group_departments(Held(rid))]

\* a call of dfs returns False and its caller undoes its choice
UndoStep == apc = "dfs" /\ apc' = "dfs" /\ Len(stack') = Len(stack) - 1

\* the room and the group of the choice that is undone
UndoneRoom == room_objects[stack[Len(stack) - 1].room].room_id
UndoneGroup == sorted_groups[stack[Len(stack) - 1].index + 1]

\* C23: the undo of backtracking_assign gives the room its capacity, its
\* four sets and its list back as they were before the choice and touches no
\* other room; so during the search the room state is the one the choices
\* still in force produce, and after dfs(i) returned false it is the state at
\* the call of dfs(i).
C23_UndoRestoresRoomState ==
    /\ [](apc = "dfs" =>
            \A rid \in RoomIds :
              /\ room_assignments[rid] = IdsChosen(rid, ChoicesInForce)
              /\ room_status[rid] = StatusOfContent(rid))
    /\ [][UndoStep =>
            /\ room_assignments[UndoneRoom]
                 = room_assignments'[UndoneRoom] \o GroupIds(UndoneGroup)
            /\ room_status'[UndoneRoom].remaining_capacity
                 = room_status[UndoneRoom].remaining_capacity
                     + Len(UndoneGroup)
            /\ \A rid \in RoomIds \ {UndoneRoom} :
                 /\ room_assignments'[rid] = room_assignments[rid]
                 /\ room_status'[rid] = room_status[rid]]_vars

\* after an undo below a choice in force: the first group stays in its room,
\* the second group was taken back from the room that had accepted it, and
\* that room holds what it held before
C23_Witness ==
    /\ apc = "dfs"
    /\ Len(stack) = 2
    /\ stack[2].room # 0
    /\ stack[2].index = 1
    /\ room_assignments[room_objects[stack[1].room].room_id] # << >>
    /\ \A rid \in RoomIds :
         room_assignments[rid] = IdsChosen(rid, 1)
    /\ stack[2].original_status
         = room_status[room_objects[stack[2].room].room_id]
    /\ stack[2].room = stack[1].room

\* the fallback has ended with every examinee of the input in a room
FullAssignment ==
    /\ result.kind = "ok"
    /\ \A id \in InputIds : \E rid \in DOMAIN result.rooms :
         id \in Range(result.rooms[rid])

\* the fallback has ended with the infeasibility error
InfeasibilityRaised ==
    /\ result.kind = "error"
    /\ result.error = InfeasibleError

\* C24: once backtracking_assign has started, the depth-first search ends
\* after finitely many steps, with a full assignment or with the
\* infeasibility error.
C24_FallbackTerminates ==
    (apc = "dfs") ~> (apc = "done" /\ (FullAssignment \/ InfeasibilityRaised))

\* the search over three groups and two rooms has tried every choice and
\* raised
C24_Witness ==
    /\ apc = "done"
    /\ UsedBacktracking
    /\ InfeasibilityRaised
    /\ Len(sorted_groups) = 3
    /\ Len(room_objects) = 2
    /\ \A i \in DOMAIN room_objects :
         can_place(room_objects[i], InitialStatus(room_objects[i]),
                   sorted_groups[1])

\* the configuration dict of the room
ConfigOf(rid) ==
    rooms_config[CHOOSE i \in DOMAIN rooms_config :
                   rooms_config[i].room_name = rid]

\* the ceiling the room object holds for a key of the configuration
CeilingOf(rid, key) ==
    CASE key = "max_subjects"    -> RoomOf(rid).max_subjects
      [] key = "max_branches"    -> RoomOf(rid).max_branches
      [] key = "max_departments" -> RoomOf(rid).max_departments
      [] key = "max_years"       -> RoomOf(rid).max_years

CeilingKeys == {"max_subjects", "max_branches", "max_departments", "max_years"}

\* more distinct values than any room can hold
NoLimit == Cardinality(InputIds) + 1

\* the room object with every ceiling of 0 replaced by a ceiling that
\* cannot be reached
Unlimited(room) ==
    [room EXCEPT
       !.max_subjects    = IF @ = 0 THEN NoLimit ELSE @,
       !.max_branches    = IF @ = 0 THEN NoLimit ELSE @,
       !.max_departments = IF @ = 0 THEN NoLimit ELSE @,
       !.max_years       = IF @ = 0 THEN NoLimit ELSE @]

\* C29: a ceiling of 0 is no limit in both passes (each pass accepts a group
\* exactly when it would with the ceiling out of reach); max_subjects and
\* max_branches are 0 and max_departments and max_years are 2 when the room
\* configuration does not give them.
C29_ZeroCeilingIsNoLimit ==
    /\ \A rid \in RoomIds : \A key \in CeilingKeys :
         CeilingOf(rid, key) =
           IF key \in DOMAIN ConfigOf(rid) THEN ConfigOf(rid)[key]
           ELSE IF key \in {"max_subjects", "max_branches"} THEN 0
           ELSE 2
    /\ PassRunning =>
         \A rid \in RoomIds : \A k \in DOMAIN sorted_groups :
           /\ FfdAccepts(RoomOf(rid), room_status[rid], sorted_groups[k])
                <=> FfdAccepts(Unlimited(RoomOf(rid)), room_status[rid],
                               sorted_groups[k])
           /\ can_place(RoomOf(rid), room_status[rid], sorted_groups[k])
                <=> can_place(Unlimited(RoomOf(rid)), room_status[rid],
                              sorted_groups[k])

\* the fallback has put a second group into a room without max_subjects,
\* which now holds two subjects, and a room with max_years 0 is in the list
C29_Witness ==
    /\ apc = "dfs"
    /\ \E rid \in RoomIds :
         /\ "max_subjects" \notin DOMAIN ConfigOf(rid)
         /\ Len(room_assignments[rid]) >= 2
         /\ Cardinality(room_status[rid].subjects) = 2
    /\ \E rid \in RoomIds :
         /\ "max_years" \in DOMAIN ConfigOf(rid)
         /\ RoomOf(rid).max_years = 0

-----------------------------------------------------------------------------
(* Claims about the placement order of the Seat Placer                     *)

\* position of a cell in row-major order
RowMajor(c, room) == c[2] * GridColumns(room) + c[1]

\* the unoccupied cells with no examinee of id's relationship set in their
\* occupied 8-neighbourhood
ClearCells(room, id) ==
    { c \in FreeCells(room) :
        ~ \E d \in DOMAIN assigned_positions :
            /\ Touching(c, d)
            /\ id \in DOMAIN friend_graph
            /\ assigned_positions[d] \in friend_graph[id] }

\* the cell is the first of the cells in row-major order
IsFirst(c, cells, room) ==
    c \in cells /\ \A d \in cells : RowMajor(c, room) <= RowMajor(d, room)

\* the step seats id at cell c
SeatsAt(id, c) ==
    /\ assigned_positions' = assigned_positions @@ (c :> id)
    /\ Len(seats') = Len(seats) + 1
    /\ SubSeq(seats', 1, Len(seats)) = seats
    /\ seats'[Len(seats')].student_id = id
    /\ seats'[Len(seats')].x = c[1]
    /\ seats'[Len(seats')].y = c[2]

\* C25: relationship-aware placement takes the examinees in queue order and
\* seats each at the first unoccupied cell, in row-major order, with no
\* examinee of its relationship set in the occupied 8-neighbourhood; without
\* such a cell, at the first unoccupied cell; a violation is recorded for
\* the examinee exactly when that fallback was used.
C25_FirstClearCellElseFirstFree ==
    [][(spc = "place" /\ queue # << >>) =>
         LET id   == Head(queue)
             room == CurrentRoom.room
         IN /\ queue' = Tail(queue)
            /\ IF ClearCells(room, id) # {}
               THEN /\ \E c \in ClearCells(room, id) :
                         /\ IsFirst(c, ClearCells(room, id), room)
                         /\ SeatsAt(id, c)
                    /\ adjacency_violations' = adjacency_violations
               ELSE IF FreeCells(room) # {}
               THEN \E c \in FreeCells(room) :
                      /\ IsFirst(c, FreeCells(room), room)
                      /\ SeatsAt(id, c)
                      /\ adjacency_violations' =
                           Append(adjacency_violations,
                                  [room |-> room, student_id |-> id,
                                   position |-> c])
               ELSE /\ seats' = seats
                    /\ assigned_positions' = assigned_positions
                    /\ adjacency_violations' = adjacency_violations]_vars

\* three examinees are seated in the room: the second one passed over a
\* free cell next to a related examinee, the third one found every free cell
\* next to a related examinee and took the first free cell
C25_Witness ==
    /\ spc = "place"
    /\ WithSeparation
    /\ Len(seats) = 3
    /\ seats[2].seat_no > 2
    /\ seats[3].seat_no = 2
    /\ adjacency_violations # << >>
    /\ adjacency_violations[Len(adjacency_violations)].student_id
         = seats[3].student_id

\* the examinee list of the room and the year of one of its members
ListOf(room) == EntryOf(room).students
YearIn(id) == YearOf(metadata, id)

\* place of the examinee in the room's list
PlaceIn(room, id) == CHOOSE i \in DOMAIN ListOf(room) : ListOf(room)[i] = id

\* the round in which the examinee's year-queue gives it out: its rank
\* among the examinees of its year, in list order
RoundOf(room, id) ==
    Cardinality({ i \in 1..PlaceIn(room, id) :
                    YearIn(ListOf(room)[i]) = YearIn(id) })

\* place of the year's queue among the queues: the first examinee of the
\* year in the list
QueueStart(room, year) ==
    CHOOSE i \in DOMAIN ListOf(room) :
      /\ YearIn(ListOf(room)[i]) = year
      /\ \A j \in 1..(i - 1) : YearIn(ListOf(room)[j]) # year

\* the examinees that round-robin gives out before id: those of earlier
\* rounds, and those of the same round from earlier queues
GivenBefore(room, id) ==
    { o \in Range(ListOf(room)) :
        \/ RoundOf(room, o) < RoundOf(room, id)
        \/ /\ RoundOf(room, o) = RoundOf(room, id)
           /\ QueueStart(room, YearIn(o)) < QueueStart(room, YearIn(id)) }

\* C26: the interleaved queue is a permutation of the year-queues that
\* keeps the order within each year, gives out one member of every
\* non-empty queue per round, queues in input order, and holds two members
\* of one year in a row only when every other year-queue is exhausted.
C26_RoundRobinInterleaving ==
    \A room \in DOMAIN seating :
      LET order == SeatedIds(room)
      IN /\ Len(order) = Len(ListOf(room))
         /\ \A id \in Range(ListOf(room)) :
              order[Cardinality(GivenBefore(room, id)) + 1] = id
         /\ \A i \in 1..(Len(order) - 1) :
              YearIn(order[i]) = YearIn(order[i + 1]) =>
                \A o \in Range(ListOf(room)) :
                  YearIn(o) # YearIn(order[i]) =>
                    \E j \in 1..(i - 1) : order[j] = o

\* a room of five examinees of three years, the third year first in the
\* list: its queue has a second round of two and a third round of one
C26_Witness ==
    /\ spc = "done"
    /\ \E room \in DOMAIN seating :
         /\ Len(seating[room]) = 5
         /\ YearIn(ListOf(room)[1]) = "3"
         /\ Cardinality({ YearIn(id) : id \in Range(ListOf(room)) }) = 3
         /\ YearIn(SeatedIds(room)[4]) # YearIn(SeatedIds(room)[5])
         /\ SeatedIds(room) # ListOf(room)

\* the cell of the k-th seat assignment of the room
CellAt(room, k) == << seating[room][k].x, seating[room][k].y >>

\* two cells next to each other in a row or in a column
OrthogonallyAdjacent(c, d) == Abs(c[1] - d[1]) + Abs(c[2] - d[2]) = 1

Min2(a, b) == IF a <= b THEN a ELSE b

\* C27: without relationship data a room of n examinees on a grid of
\* columns * rows cells gets, for 1 <= n < columns * rows, n distinct cells;
\* when (columns * rows) div n >= 2 all of them have (x + y) even and no
\* two are orthogonally adjacent; when (columns * rows) div n < 2 or
\* n >= columns * rows they are the first min(n, columns * rows) cells in
\* row-major order.
C27_SpreadPositions ==
    ~ WithSeparation =>
      \A room \in DOMAIN seating :
        LET n     == Occupancy(room)
            total == GridColumns(room) * GridRows(room)
            cells == [k \in DOMAIN seating[room] |-> CellAt(room, k)]
        IN /\ (1 <= n /\ n < total) =>
                /\ Len(cells) = n
                /\ \A i, j \in DOMAIN cells : i # j => cells[i] # cells[j]
           /\ (1 <= n /\ n < total /\ total \div n >= 2) =>
                /\ \A k \in DOMAIN cells : (cells[k][1] + cells[k][2]) % 2 = 0
                /\ \A i, j \in DOMAIN cells :
                     ~ OrthogonallyAdjacent(cells[i], cells[j])
           /\ (n >= total \/ (1 <= n /\ total \div n < 2)) =>
                /\ Len(cells) = Min2(n, total)
                /\ \A k \in DOMAIN cells :
                     cells[k] = << (k - 1) % GridColumns(room),
                                   (k - 1) \div GridColumns(room) >>

\* a returned spread seating of four examinees on the 2 x 5 grid: one cell
\* of every row, in a zigzag
C27_Witness ==
    /\ spc = "done"
    /\ ~ WithSeparation
    /\ \E room \in DOMAIN seating :
         /\ GridColumns(room) = 2
         /\ GridRows(room) = 5
         /\ Len(seating[room]) = 4
         /\ CellAt(room, 2) = <<1, 1>>
         /\ CellAt(room, 4) = <<1, 3>>

\* cells of the grid the placer uses for the room
CellsOf(room) == GridColumns(room) * GridRows(room)

\* the room's list is longer than its grid has cells
Overfull(room) == Occupancy(room) > CellsOf(room)

\* C30: for a room whose examinee list is longer than columns * rows (the
\* configured grid, or 6 x 5 without one) assign_seats_in_room returns
\* normally, in both modes, with exactly columns * rows seat assignments:
\* those of the first columns * rows examinees of the interleaved queue;
\* the examinees at the end of the queue have no seat.
C30_OverfullRoomTruncated ==
    spc = "done" =>
      /\ returned.kind = "ok"
      /\ returned.seating = seating
      /\ \A r \in DOMAIN room_assignment :
           LET room == room_assignment[r].room
           IN Overfull(room) =>
                /\ room \in DOMAIN seating
                /\ Len(seating[room]) = CellsOf(room)
                /\ \A id \in Range(ListOf(room)) :
                     IF Cardinality(GivenBefore(room, id)) < CellsOf(room)
                     THEN SeatedIds(room)[Cardinality(GivenBefore(room, id)) + 1]
                            = id
                     ELSE id \notin Range(SeatedIds(room))

\* the relationship-aware mode has returned 30 seat assignments for a room
\* without a layout that lists 32 examinees of two years
C30_Witness ==
    /\ spc = "done"
    /\ WithSeparation
    /\ room_config = << >>
    /\ Occupancy(RoomNames[1]) = 32
    /\ Len(seating[RoomNames[1]]) = 30
    /\ Cardinality({ YearIn(id) : id \in Range(ListOf(RoomNames[1])) }) = 2

-----------------------------------------------------------------------------
(* Claims about the colouring of relationship and section edges            *)

\* the two examinees are in one of the returned colour groups
ShareGroup(a, b) ==
    \E k \in DOMAIN color_groups :
      {a, b} \subseteq Range(color_groups[k].members)

\* the pair gets a section edge unless another edge joins it already
SectionPair(a, b) == enable_section_separation /\ SameSection(a, b)

\* C28: the colouring is proper on every edge of the graph, whatever its
\* weight: with friend or section separation enabled no two examinees
\* joined by a relationship edge or by a same-section edge hold the same
\* colour or share a returned colour group.
C28_ProperOnEveryEdge ==
    /\ \A e \in graph.edges : \A a, b \in e :
         (a # b /\ a \in DOMAIN colors /\ b \in DOMAIN colors)
           => colors[a] # colors[b]
    /\ (cpc = "done" /\ EnhancedGraphBuilt) =>
         \A a, b \in StudentIDs(df) :
           (a # b /\ (RelationshipPair(a, b) \/ SectionPair(a, b)))
             => ~ ShareGroup(a, b)

\* a finished run of three examinees in three slots: two of them are joined
\* by a relationship only, two by their section only, and the two that no
\* edge joins share a group
C28_Witness ==
    /\ cpc = "done"
    /\ \E a, b, c \in StudentIDs(df) :
         /\ RelationshipPair(a, b)
         /\ ~ HardConflict(a, b) /\ ~ SameSection(a, b)
         /\ SectionPair(a, c)
         /\ ~ HardConflict(a, c) /\ ~ RelationshipPair(a, c)
         /\ ShareGroup(b, c)

=============================================================================
